---- MODULE Spec2Model ----
\* HealthMetric: the delivery channel (sender, receiver, push-with-retry), the
\* daily merge pipeline (validate, reorganize into hub/project/week, manifest,
\* cleanup) and the dashboard's week grouping helpers.
EXTENDS Integers, Sequences, FiniteSets, TLC

VARIABLES
    \* ---- week grouping (DataAggregator.getWeekStart, createTimeSeriesChart) ----
    date,               \* the Date under consideration: [day, hours] in local time
    aggWeekStart,       \* result of DataAggregator.getWeekStart(date), or NoDate
    chartWeekStart,     \* result of createTimeSeriesChart's getWeekStart(date), or NoDate
    weekFolder,         \* week folder the merge process files `date` under, or NoDate
    formulaWeek,        \* date - ((weekday + 6) mod 7), weekday 0 = Monday, or NoDate
    \* ---- git push retry loop of the workflows ----
    remoteHead,         \* number of commits on origin/main
    localBase,          \* per writer: the origin/main commit its local branch is based on
    pushPc,             \* per writer: position in the workflow's commit-and-push step
    RETRY_COUNT,        \* per writer: the shell variable RETRY_COUNT
    pushAttempts,       \* per writer: `git push` invocations of the current write
    pushRejected,       \* per writer: rejected `git push` invocations of the current write
    pushed,             \* per writer: the write's commit is on origin/main
    stepResult,         \* per writer: "running", "success" or "failure" of the step
    remoteLog,          \* the commits of origin/main, oldest first, each named by
                        \* the writer that made it (0: someone else)
    accepted,           \* history, per writer and for 0: pushes origin/main accepted
    \* ---- sender, receiver and the daily merge ----
    senderPc,           \* per job: "init", "sent" (payload committed), "triggered",
                        \* or the failures "config_error", "send_failed", "trigger_failed"
    temp_storage,       \* jobs whose raw payload is in _temp_storage/
    payload,            \* per job: files embedded in its raw payload ({} if none)
    senderWrites,       \* history, per job: writes of the sender's invocation to the
                        \* store: [payload, trigger]
    triggers,           \* jobs whose trigger file is in .github/triggers/
    data_received,      \* jobs whose package folder is in _data_received/
    staged,             \* files in the package folders of _data_received/
    today,              \* the day (days since the first send)
    sentDay,            \* per job: day of the timestamp of its raw payload
    receiverLog,        \* receiver.log: [event, job] entries
    unpacks,            \* history, per job: unpacks of its payload: 0, 1, 2 (or more)
    written,            \* history, per job: files its last unpack wrote to staging
    removedBy,          \* history, per job: what deleted its raw payload
    archive,            \* files under docs/asset/data/
    manifest,           \* docs/asset/data/manifest.json, or NoManifest
    mergePc,            \* step of the merge run, "idle" between runs
    queue,              \* files the run has still to process, in processing order
    runOrder,           \* files the run set out to process, in processing order
    marked,             \* package folders the run has marked for cleanup
    rejections,         \* the run's rejection list: [file, reason]
    clock,              \* time; every merge run starts at a later time
    decided,            \* history, per file: "undecided", "merged" or "rejected"
    cleaned,            \* history: package folders deleted by the cleanup step
    stoppedAt,          \* history: the step at which the last run ended
    runEnds,            \* history: outcome of the last two consecutive pipeline passes
    runLog,             \* the log of the merge run: [event, file, job] entries
    summary,            \* the summary the last merge run ended with, or NoSummary
    \* ---- the validation of one report file ----
    report,             \* the .sexyDuck file under validation, or NoReport
    verdict,            \* "none", "accepted" or "rejected"
    \* ---- the runs of the workflows (GitHub Actions concurrency groups) ----
    runWorkflow,        \* per run: the workflow it is a run of, or "none" (not requested yet)
    runState,           \* per run: "none", "queued", "in_progress", "completed" or "cancelled"
    \* ---- DashboardApp.loadSexyDuckData ----
    loadPc,             \* position in loadSexyDuckData: "idle", "manifest", "loop", "done", "failed"
    manifestFetch,      \* what the fetch of asset/data/manifest.json comes to
    manifestFiles,      \* manifest.files: per listed file, what its fetch comes to
    nextFile,           \* index in manifest.files of the file the loop is at
    this_data,          \* this.data
    this_filteredData,  \* this.filteredData
    loadedCount,        \* loadedCount
    skippedCount,       \* skippedCount
    shownError,         \* the message of showError, "" if none
    thrown,             \* the call has rethrown the error
    \* ---- DataStorage (docs/js/data/storage.js) ----
    localStorage,       \* key -> the item stored under it
    dateNow,            \* Date.now(), in milliseconds
    lastCall,           \* key -> data of the latest saveData call
    lastSaved,          \* key -> data of the latest saveData call that returned
    loaded,             \* the latest loadData call: its key and outcome
    \* ---- ToastNotification (docs/js/components/ToastNotification.js) ----
    toasts,             \* this.toasts: the ids tracked, in insertion order
    container,          \* the toast elements attached to the container, in order
    hiding,             \* toasts carrying the class hide
    autoHide,           \* toasts whose auto-hide timer is pending
    removal,            \* toast -> number of pending removal timers
    shows               \* number of show calls so far

weekVars == <<date, aggWeekStart, chartWeekStart, weekFolder, formulaWeek>>

pushVars == <<remoteHead, localBase, pushPc, RETRY_COUNT, pushAttempts, pushRejected,
              pushed, stepResult, remoteLog, accepted>>

deliveryVars == <<senderPc, temp_storage, triggers, payload, senderWrites>>

mergeVars == <<archive, manifest, mergePc, queue, runOrder, marked, rejections, clock,
               decided, cleaned, stoppedAt, runEnds, runLog, summary>>

receiverVars == <<today, sentDay, receiverLog, unpacks, written, removedBy>>

stagingVars == <<data_received, staged>>

pipeVars == <<deliveryVars, stagingVars, receiverVars, mergeVars>>

validateVars == <<report, verdict>>

scheduleVars == <<runWorkflow, runState>>

loaderVars == <<loadPc, manifestFetch, manifestFiles, nextFile, this_data,
                this_filteredData, loadedCount, skippedCount, shownError, thrown>>

storageVars == <<localStorage, dateNow, lastCall, lastSaved, loaded>>

toastVars == <<toasts, container, hiding, autoHide, removal, shows>>

vars == <<weekVars, pushVars, pipeVars, validateVars, scheduleVars, loaderVars, storageVars, toastVars>>

notWeek == <<pushVars, pipeVars, validateVars, scheduleVars, loaderVars, storageVars, toastVars>>

notPush == <<weekVars, pipeVars, validateVars, scheduleVars, loaderVars, storageVars, toastVars>>

notPipe == <<weekVars, pushVars, validateVars, scheduleVars, loaderVars, storageVars, toastVars>>

notValidate == <<weekVars, pushVars, pipeVars, scheduleVars, loaderVars, storageVars, toastVars>>

notSchedule == <<weekVars, pushVars, pipeVars, validateVars, loaderVars, storageVars, toastVars>>

notLoader == <<weekVars, pushVars, pipeVars, validateVars, scheduleVars, storageVars, toastVars>>

notStorage == <<weekVars, pushVars, pipeVars, validateVars, scheduleVars, loaderVars, toastVars>>

notToast == <<weekVars, pushVars, pipeVars, validateVars, scheduleVars, loaderVars, storageVars>>

----------------------------------------------------------------------------
\* Calendar. Day number 0 is 2024-01-01, a Monday.

BaseYear == 2024

IsLeap(y) == (y % 4 = 0 /\ y % 100 # 0) \/ y % 400 = 0

DaysInMonth(y, m) ==
    IF m = 2 THEN (IF IsLeap(y) THEN 29 ELSE 28)
    ELSE IF m \in {4, 6, 9, 11} THEN 30 ELSE 31

DaysInYear(y) == IF IsLeap(y) THEN 366 ELSE 365

RECURSIVE DaysBeforeYear(_)
DaysBeforeYear(y) == IF y <= BaseYear THEN 0 ELSE DaysBeforeYear(y - 1) + DaysInYear(y - 1)

RECURSIVE DaysBeforeMonth(_, _)
DaysBeforeMonth(y, m) == IF m <= 1 THEN 0 ELSE DaysBeforeMonth(y, m - 1) + DaysInMonth(y, m - 1)

\* Day number of year-month-dayOfMonth; dayOfMonth may lie outside the month
\* (0 is the last day of the previous month), as Date.prototype.setDate allows.
DayNumber(y, m, d) == DaysBeforeYear(y) + DaysBeforeMonth(y, m) + d - 1

RECURSIVE YearOf(_, _)
YearOf(n, y) == IF n < DaysBeforeYear(y + 1) THEN y ELSE YearOf(n, y + 1)

RECURSIVE MonthOf(_, _, _)
MonthOf(n, y, m) ==
    IF n < DaysBeforeYear(y) + DaysBeforeMonth(y, m + 1) THEN m ELSE MonthOf(n, y, m + 1)

\* Civil date of a day number n >= 0.
Civil(n) ==
    LET y == YearOf(n, BaseYear)
        m == MonthOf(n, y, 1)
    IN  [year |-> y, month |-> m, date |-> n - DayNumber(y, m, 1) + 1]

\* Date.prototype.getDay(): 0 = Sunday .. 6 = Saturday.
getDay(d) == (d.day + 1) % 7

\* Date.prototype.getDate(): day of the month.
getDate(d) == Civil(d.day).date

\* Date.prototype.setDate(k): same month, day-of-month k, normalised; the time
\* of day is kept.
setDate(d, k) ==
    LET c == Civil(d.day)
    IN  [day |-> DayNumber(c.year, c.month, k), hours |-> d.hours]

\* Date.prototype.setHours(h, 0, 0, 0)
setHours(d, h) == [day |-> d.day, hours |-> h]

NoDate == [day |-> -1, hours |-> 0]

----------------------------------------------------------------------------
\* DataAggregator.getWeekStart

getWeekStart_NoSundayCase(d) == setDate(d, getDate(d) - getDay(d) + 1)

getWeekStart(d) ==
    LET day  == getDay(d)
        diff == getDate(d) - day + (IF day = 0 THEN -6 ELSE 1)
    IN  setDate(d, diff)

\* createTimeSeriesChart: local helper getWeekStart
chart_getWeekStart(d) ==
    LET day  == getDay(d)
        diff == getDate(d) - day + (IF day = 0 THEN -6 ELSE 1)
        weekStart == setDate(d, diff)
    IN  setHours(weekStart, 0)

\* Merge process, week level: a report date (a day number) is normalised to the
\* Monday of its week; weekday 0 = Monday .. 6 = Sunday.
Weekday(n) == n % 7

WeekStart_SundayAnchored(n) == n - ((n + 1) % 7)

WeekStart_NextMonday(n) == IF Weekday(n) = 0 THEN n ELSE n + (7 - Weekday(n))

WeekStart(n) == n - Weekday(n)

\* The week formula as written: weekStart = date - ((weekday(date) + 6) mod 7),
\* weekday 0 = Monday .. 6 = Sunday.
FormulaWeekStart(n) == n - ((Weekday(n) + 6) % 7)

\* The same formula with weekday numbered as getDay numbers it, 0 = Sunday.
FormulaWeekStart_getDay(n) == n - ((getDay([day |-> n, hours |-> 0]) + 6) % 7)

----------------------------------------------------------------------------
\* Inputs of the week specification: three windows of days that cross a leap
\* day, a year boundary and the weeks of October 2025.

WindowDays == 14

Hours == {0, 12, 23}

WindowStarts == {DayNumber(2024, 2, 24), DayNumber(2024, 12, 25), DayNumber(2025, 10, 1)}

Days == {s + i : s \in WindowStarts, i \in 0..(WindowDays - 1)}

InitWeek ==
    /\ date = NoDate
    /\ aggWeekStart = NoDate
    /\ chartWeekStart = NoDate
    /\ weekFolder = NoDate
    /\ formulaWeek = NoDate

\* The next item's timestamp (groupByWeek's forEach, createTimeSeriesChart's for
\* loop, the next report file of the merge).
NextTimestamp ==
    /\ \E d \in [day : Days, hours : Hours] : date' = d
    /\ aggWeekStart' = NoDate
    /\ chartWeekStart' = NoDate
    /\ weekFolder' = NoDate
    /\ formulaWeek' = NoDate
    /\ UNCHANGED notWeek

AggregatorGetWeekStart ==
    /\ date # NoDate
    /\ aggWeekStart = NoDate
    /\ aggWeekStart' = getWeekStart(date)
    /\ UNCHANGED <<date, chartWeekStart, weekFolder, formulaWeek>>
    /\ UNCHANGED notWeek

ChartGetWeekStart ==
    /\ date # NoDate
    /\ chartWeekStart = NoDate
    /\ chartWeekStart' = chart_getWeekStart(date)
    /\ UNCHANGED <<date, aggWeekStart, weekFolder, formulaWeek>>
    /\ UNCHANGED notWeek

MergeWeekFolder ==
    /\ date # NoDate
    /\ weekFolder = NoDate
    /\ weekFolder' = [day |-> WeekStart(date.day), hours |-> 0]
    /\ UNCHANGED <<date, aggWeekStart, chartWeekStart, formulaWeek>>
    /\ UNCHANGED notWeek

ApplyFormula ==
    /\ date # NoDate
    /\ formulaWeek = NoDate
    /\ formulaWeek' = [day |-> FormulaWeekStart(date.day), hours |-> 0]
    /\ UNCHANGED <<date, aggWeekStart, chartWeekStart, weekFolder>>
    /\ UNCHANGED notWeek

NextWeek ==
    \/ NextTimestamp
    \/ AggregatorGetWeekStart
    \/ ChartGetWeekStart
    \/ MergeWeekFolder
    \/ ApplyFormula

----------------------------------------------------------------------------
\* Git push retry logic of the workflows (data merge, cache bust).

MAX_RETRIES == 3

NumWriters == 2

\* Commits on origin/main the model follows.
MaxHead == 3

\* `git push` invocations of one write the model follows.
MaxAttempts == 4

Writers == 1..NumWriters

InitPush ==
    /\ remoteHead = 0
    /\ localBase = [w \in Writers |-> 0]
    /\ pushPc = [w \in Writers |-> "idle"]
    /\ RETRY_COUNT = [w \in Writers |-> 0]
    /\ pushAttempts = [w \in Writers |-> 0]
    /\ pushRejected = [w \in Writers |-> 0]
    /\ pushed = [w \in Writers |-> FALSE]
    /\ stepResult = [w \in Writers |-> "running"]
    /\ remoteLog = <<>>
    /\ accepted = [w \in Writers \cup {0} |-> 0]

\* A workflow run checks out main, makes its changes and commits them locally;
\* MAX_RETRIES=3, RETRY_COUNT=0.
CommitChanges(w) ==
    /\ pushPc[w] \in {"idle", "done"}
    /\ remoteHead < MaxHead
    /\ localBase' = [localBase EXCEPT ![w] = remoteHead]
    /\ RETRY_COUNT' = [RETRY_COUNT EXCEPT ![w] = 0]
    /\ pushAttempts' = [pushAttempts EXCEPT ![w] = 0]
    /\ pushRejected' = [pushRejected EXCEPT ![w] = 0]
    /\ pushed' = [pushed EXCEPT ![w] = FALSE]
    /\ stepResult' = [stepResult EXCEPT ![w] = "running"]
    /\ pushPc' = [pushPc EXCEPT ![w] = "while"]
    /\ UNCHANGED remoteHead
    /\ UNCHANGED <<remoteLog, accepted>>
    /\ UNCHANGED notPush

\* while [ $RETRY_COUNT -lt $MAX_RETRIES ]; do
WhileTest(w) ==
    /\ pushPc[w] = "while"
    /\ pushPc' = [pushPc EXCEPT ![w] =
                    IF RETRY_COUNT[w] < MAX_RETRIES THEN "push" ELSE "after"]
    /\ UNCHANGED <<remoteHead, localBase, RETRY_COUNT, pushAttempts, pushRejected,
                   pushed, stepResult>>
    /\ UNCHANGED <<remoteLog, accepted>>
    /\ UNCHANGED notPush

\* origin/main after it accepted the push of writer w's branch: the commits
\* the branch is based on, then w's commit.
PushBranch(log, base, w) == Append(SubSeq(log, 1, base), w)

GitPush_Forced(w) ==
    /\ pushPc[w] = "push"
    /\ pushAttempts[w] < MaxAttempts
    /\ pushAttempts' = [pushAttempts EXCEPT ![w] = @ + 1]
    /\ \E network_ok \in BOOLEAN :
         IF network_ok
         THEN /\ remoteHead' = remoteHead + 1
              /\ localBase' = [localBase EXCEPT ![w] = remoteHead + 1]
              /\ pushed' = [pushed EXCEPT ![w] = TRUE]
              /\ pushPc' = [pushPc EXCEPT ![w] = "after"]
              /\ remoteLog' = PushBranch(remoteLog, localBase[w], w)
              /\ accepted' = [accepted EXCEPT ![w] = @ + 1]
              /\ UNCHANGED pushRejected
         ELSE /\ pushRejected' = [pushRejected EXCEPT ![w] = @ + 1]
              /\ pushPc' = [pushPc EXCEPT ![w] = "pull"]
              /\ UNCHANGED <<remoteHead, localBase, pushed, remoteLog, accepted>>
    /\ UNCHANGED <<RETRY_COUNT, stepResult>>
    /\ UNCHANGED notPush

\* if git push origin main; then break; else (pull and retry). The push is
\* rejected when origin/main has moved past the local base, and may also fail
\* for a transient network issue.
GitPush(w) ==
    /\ pushPc[w] = "push"
    /\ pushAttempts[w] < MaxAttempts
    /\ pushAttempts' = [pushAttempts EXCEPT ![w] = @ + 1]
    /\ \E network_ok \in BOOLEAN :
         IF network_ok /\ localBase[w] = remoteHead
         THEN /\ remoteHead' = remoteHead + 1
              /\ localBase' = [localBase EXCEPT ![w] = remoteHead + 1]
              /\ pushed' = [pushed EXCEPT ![w] = TRUE]
              /\ pushPc' = [pushPc EXCEPT ![w] = "after"]
              /\ remoteLog' = PushBranch(remoteLog, localBase[w], w)
              /\ accepted' = [accepted EXCEPT ![w] = @ + 1]
              /\ UNCHANGED pushRejected
         ELSE /\ pushRejected' = [pushRejected EXCEPT ![w] = @ + 1]
              /\ pushPc' = [pushPc EXCEPT ![w] = "pull"]
              /\ UNCHANGED <<remoteHead, localBase, pushed, remoteLog, accepted>>
    /\ UNCHANGED <<RETRY_COUNT, stepResult>>
    /\ UNCHANGED notPush

\* git pull origin main --rebase; the loop body ends and the test is repeated.
\* The loop body never changes RETRY_COUNT.
GitPullRebase(w) ==
    /\ pushPc[w] = "pull"
    /\ localBase' = [localBase EXCEPT ![w] = remoteHead]
    /\ pushPc' = [pushPc EXCEPT ![w] = "while"]
    /\ UNCHANGED <<remoteHead, RETRY_COUNT, pushAttempts, pushRejected, pushed, stepResult>>
    /\ UNCHANGED <<remoteLog, accepted>>
    /\ UNCHANGED notPush

\* done: nothing after the loop tests whether the push went through, so the
\* step ends with the status of the loop.
StepEnd(w) ==
    /\ pushPc[w] = "after"
    /\ stepResult' = [stepResult EXCEPT ![w] = "success"]
    /\ pushPc' = [pushPc EXCEPT ![w] = "done"]
    /\ UNCHANGED <<remoteHead, localBase, RETRY_COUNT, pushAttempts, pushRejected, pushed>>
    /\ UNCHANGED <<remoteLog, accepted>>
    /\ UNCHANGED notPush

\* A commit by someone else lands on origin/main (a sender's payload, a manual
\* commit).
OtherCommit ==
    /\ remoteHead < MaxHead
    /\ remoteHead' = remoteHead + 1
    /\ UNCHANGED <<localBase, pushPc, RETRY_COUNT, pushAttempts, pushRejected, pushed,
                   stepResult>>
    /\ remoteLog' = Append(remoteLog, 0)
    /\ accepted' = [accepted EXCEPT ![0] = @ + 1]
    /\ UNCHANGED notPush

NextPush ==
    \/ \E w \in Writers : CommitChanges(w)
    \/ \E w \in Writers : WhileTest(w)
    \/ \E w \in Writers : GitPush(w)
    \/ \E w \in Writers : GitPullRebase(w)
    \/ \E w \in Writers : StepEnd(w)
    \/ OtherCommit

\* The first write of a workflow run.
FirstWrite(w) == CommitChanges(w) /\ pushPc[w] = "idle"

\* Writers that write once each, concurrently, while others commit.
NextConcurrent ==
    \/ \E w \in Writers : FirstWrite(w)
    \/ \E w \in Writers : WhileTest(w)
    \/ \E w \in Writers : GitPush(w)
    \/ \E w \in Writers : GitPullRebase(w)
    \/ \E w \in Writers : StepEnd(w)
    \/ OtherCommit

----------------------------------------------------------------------------
\* Sender, receiver and the daily merge of _data_received/ into docs/asset/data/.

\* Packages (revit_slave_<timestamp>) the model follows, numbered in
\* chronological order.
NumJobs == 3

Jobs == 1..NumJobs

HUB == "Ennead Architects LLP"

\* The .sexyDuck files the packages carry. `folder` is the project folder under
\* task_output/ ("" for a legacy flat file); `date` is the date at the head of
\* the file name and `name` the rest of it, split at "_"; `content` identifies
\* the bytes; `b64` tells whether the payload's entry for the file is
\* decodable base64.
FILES == <<
    [job |-> 1, folder |-> "", date |-> DayNumber(2025, 10, 6),
     name |-> <<HUB, "1643", "LHH", "ModelA">>, content |-> 1, size |-> 10,
     json |-> TRUE, status |-> "completed", error_occurred |-> FALSE, mock_mode |-> FALSE, b64 |-> TRUE],
    [job |-> 1, folder |-> "", date |-> DayNumber(2025, 10, 13),
     name |-> <<HUB, "1643", "LHH", "ModelB">>, content |-> 2, size |-> 20,
     json |-> TRUE, status |-> "failed", error_occurred |-> FALSE, mock_mode |-> FALSE, b64 |-> TRUE],
    [job |-> 2, folder |-> "1643_LHH", date |-> DayNumber(2025, 10, 11),
     name |-> <<HUB, "1643", "LHH", "ModelA">>, content |-> 3, size |-> 30,
     json |-> TRUE, status |-> "completed", error_occurred |-> FALSE, mock_mode |-> FALSE, b64 |-> TRUE],
    [job |-> 2, folder |-> "", date |-> DayNumber(2025, 10, 13),
     name |-> <<HUB, "1643", "LHH", "ModelB">>, content |-> 4, size |-> 40,
     json |-> TRUE, status |-> "completed", error_occurred |-> FALSE, mock_mode |-> FALSE, b64 |-> TRUE],
    [job |-> 3, folder |-> "MyCustomProject", date |-> DayNumber(2025, 10, 12),
     name |-> <<HUB, "2330", "Studio 54", "ModelC">>, content |-> 5, size |-> 50,
     json |-> TRUE, status |-> "completed", error_occurred |-> FALSE, mock_mode |-> FALSE, b64 |-> TRUE],
    [job |-> 3, folder |-> "", date |-> DayNumber(2025, 10, 6),
     name |-> <<HUB, "1643", "LHH", "ModelA">>, content |-> 6, size |-> 60,
     json |-> TRUE, status |-> "completed", error_occurred |-> FALSE, mock_mode |-> TRUE, b64 |-> TRUE],
    [job |-> 4, folder |-> "", date |-> DayNumber(2025, 10, 9),
     name |-> <<HUB, "1643", "LHH", "ModelA">>, content |-> 7, size |-> 0,
     json |-> FALSE, status |-> "completed", error_occurred |-> FALSE, mock_mode |-> FALSE, b64 |-> TRUE],
    [job |-> 2, folder |-> "", date |-> DayNumber(2025, 10, 9),
     name |-> <<HUB, "1643", "LHH", "ModelC">>, content |-> 8, size |-> 80,
     json |-> TRUE, status |-> "completed", error_occurred |-> FALSE, mock_mode |-> FALSE, b64 |-> FALSE],
    [job |-> 3, folder |-> "", date |-> DayNumber(2025, 10, 13),
     name |-> <<HUB, "1643", "LHH", "ModelD">>, content |-> 9, size |-> 90,
     json |-> TRUE, status |-> "completed", error_occurred |-> FALSE, mock_mode |-> FALSE, b64 |-> TRUE]
>>

FileIds == {f \in DOMAIN FILES : FILES[f].job \in Jobs}

JobFiles(j) == {f \in FileIds : FILES[f].job = j}

\* Merge runs the model follows.
MaxClock == 3

NoManifest == [version |-> "none", generated_at |-> 0, total_files |-> 0, files |-> {}]

NoRun == [input |-> <<>>, archive |-> {}, manifest |-> NoManifest, at |-> 0]

\* File Validation Rules 1-5; the reason is the first rule the file breaks.
RejectionReason(f) ==
    IF ~FILES[f].json THEN "invalid JSON"
    ELSE IF FILES[f].status = "failed" THEN "status failed"
    ELSE IF FILES[f].error_occurred THEN "error flag"
    ELSE IF FILES[f].mock_mode THEN "mock data"
    ELSE IF FILES[f].size = 0 THEN "empty"
    ELSE "ok"

validate_file_IgnoringMock(r) ==
    /\ r.json
    /\ r.status # "failed"
    /\ ~r.error_occurred
    /\ r.size # 0

\* File Validation Rules 1-5 on the attributes of one file.
validate_file(r) ==
    /\ r.json
    /\ r.status # "failed"
    /\ ~r.error_occurred
    /\ ~r.mock_mode
    /\ r.size # 0

Validate_IgnoringStatus(f) ==
    /\ FILES[f].json
    /\ ~FILES[f].error_occurred
    /\ ~FILES[f].mock_mode
    /\ FILES[f].size # 0

\* The validation of file f of the catalog.
Validate(f) == validate_file(FILES[f])

RECURSIVE JoinTokens(_)
JoinTokens(t) == IF Len(t) = 1 THEN t[1] ELSE t[1] \o "_" \o JoinTokens(Tail(t))

ParseFilename_FixedTokens(t) ==
    [hub |-> t[1], project |-> t[2], model |-> t[Len(t)]]

\* YYYY-MM-DD_HubName_ProjectIdentifier_ModelName.sexyDuck: the hub follows the
\* date, the model name is the last part, and what lies between is the project
\* identifier, which may itself hold "_".
ParseFilename(t) ==
    [hub |-> t[1], project |-> JoinTokens(SubSeq(t, 2, Len(t) - 1)), model |-> t[Len(t)]]

Destination_NextMonday(f) ==
    LET parsed == ParseFilename(FILES[f].name)
    IN  [hub |-> parsed.hub,
         project |-> IF FILES[f].folder # "" THEN FILES[f].folder ELSE parsed.project,
         week |-> WeekStart_NextMonday(FILES[f].date),
         model |-> parsed.model]

\* docs/asset/data/{Hub}/{Project}/{Date}/{Model}.sexyDuck, Date being the
\* Monday of the file's week.
Destination(f) ==
    LET parsed == ParseFilename(FILES[f].name)
    IN  [hub |-> parsed.hub,
         project |-> IF FILES[f].folder # "" THEN FILES[f].folder ELSE parsed.project,
         week |-> WeekStart(FILES[f].date),
         model |-> parsed.model]

ArchiveFile(f, now) ==
    [path |-> Destination(f), content |-> FILES[f].content, filesize |-> FILES[f].size,
     scored |-> FALSE, mtime |-> now]

CopyFile_KeepingVersions(arch, f, now) == arch \cup {ArchiveFile(f, now)}

\* Copy the file to its destination under the model name; a file already
\* there is overwritten.
CopyFile(arch, f, now) ==
    {a \in arch : a.path # Destination(f)} \cup {ArchiveFile(f, now)}

ScoreFile_Appending(a, now) ==
    [a EXCEPT !.scored = TRUE, !.filesize = a.filesize + 1, !.mtime = now]

\* Score one file: it is updated in place with its score data.
ScoreFile(a, now) ==
    [a EXCEPT !.scored = TRUE,
              !.filesize = IF a.scored THEN a.filesize ELSE a.filesize + 1,
              !.mtime = now]

GenerateManifest_ChangedFilesOnly(arch, now) ==
    LET changed == {a \in arch : a.mtime = now}
    IN  [version |-> "3.0", generated_at |-> now, total_files |-> Cardinality(changed),
         files |-> {[relative_path |-> a.path, filesize |-> a.filesize,
                     last_modified |-> a.mtime] : a \in changed}]

GenerateManifest_CountingThisRun(arch, now) ==
    [version |-> "3.0", generated_at |-> now,
     total_files |-> Cardinality({a \in arch : a.mtime = now}),
     files |-> {[relative_path |-> a.path, filesize |-> a.filesize,
                 last_modified |-> a.mtime] : a \in arch}]

\* manifest.json, rebuilt from a walk of docs/asset/data/.
GenerateManifest(arch, now) ==
    [version |-> "3.0", generated_at |-> now, total_files |-> Cardinality(arch),
     files |-> {[relative_path |-> a.path, filesize |-> a.filesize,
                 last_modified |-> a.mtime] : a \in arch}]

\* Files of a package in processing order: those in project folders (step 2),
\* then the legacy flat files (step 3).
RECURSIVE SeqOfSet(_)
SeqOfSet(S) ==
    IF S = {} THEN <<>>
    ELSE LET x == CHOOSE y \in S : \A z \in S : y <= z
         IN  <<x>> \o SeqOfSet(S \ {x})

PackageOrder(j) ==
    SeqOfSet({f \in JobFiles(j) \cap staged : FILES[f].folder # ""})
        \o SeqOfSet({f \in JobFiles(j) \cap staged : FILES[f].folder = ""})

\* Package folders sorted chronologically, oldest first.
RECURSIVE ProcessingOrder(_)
ProcessingOrder(J) ==
    IF J = {} THEN <<>>
    ELSE LET j == CHOOSE y \in J : \A z \in J : y <= z
         IN  PackageOrder(j) \o ProcessingOrder(J \ {j})

Range(q) == {q[i] : i \in DOMAIN q}

\* Raw packages older than this many days are deleted from _temp_storage/.
RETENTION_DAYS == 10

\* Days the model follows.
MaxDay == 15

NoSummary == [produced |-> FALSE, merged |-> {}, rejected |-> {}, pending |-> {}]

\* The run's log says what it did with a file.
LogFile(log, f, outcome) ==
    log \cup {[event |-> outcome, file |-> f, job |-> FILES[f].job]}

LogCleanup_Silent(log, j) == log

\* The run's log says which package folder it deleted.
LogCleanup(log, j) == log \cup {[event |-> "deleted", file |-> 0, job |-> j]}

\* The summary a run ends with: the files it merged, the files it rejected
\* with the reasons, and the files in the staging area it did not get to.
Summarize(log, rej, stagedNow) ==
    [produced |-> TRUE,
     merged |-> {e.file : e \in {x \in log : x.event = "merged"}},
     rejected |-> rej,
     pending |-> {f \in stagedNow : \A e \in log : e.file # f}]

LogUnpack_OnlySkipped(log, j, stage, skipped) ==
    log \cup {[event |-> "skipped", job |-> j, file |-> f] : f \in skipped}

\* receiver.log: the files of the payload that were skipped, the trigger file
\* cleaned up, the raw package deleted.
LogUnpack(log, j, stage, skipped) ==
    log \cup {[event |-> "skipped", job |-> j, file |-> f] : f \in skipped}
        \cup (IF stage \in {"cleaned", "deleted"}
              THEN {[event |-> "cleaned", job |-> j, file |-> 0]} ELSE {})
        \cup (IF stage = "deleted"
              THEN {[event |-> "deleted", job |-> j, file |-> 0]} ELSE {})

InitPipe ==
    /\ senderPc = [j \in Jobs |-> "init"]
    /\ temp_storage = {}
    /\ triggers = {}
    /\ payload = [j \in Jobs |-> {}]
    /\ senderWrites = [j \in Jobs |-> [payload |-> 0, trigger |-> 0]]
    /\ data_received = {}
    /\ staged = {}
    /\ today = 0
    /\ sentDay = [j \in Jobs |-> 0]
    /\ receiverLog = {}
    /\ unpacks = [j \in Jobs |-> 0]
    /\ written = [j \in Jobs |-> {}]
    /\ removedBy = [j \in Jobs |-> "none"]
    /\ archive = {}
    /\ manifest = NoManifest
    /\ mergePc = "idle"
    /\ queue = <<>>
    /\ runOrder = <<>>
    /\ marked = {}
    /\ rejections = {}
    /\ clock = 0
    /\ decided = [f \in FileIds |-> "undecided"]
    /\ cleaned = {}
    /\ stoppedAt = "none"
    /\ runEnds = [prev |-> NoRun, last |-> NoRun]
    /\ runLog = {}
    /\ summary = NoSummary

\* sender.py create_batch_payload: walk the source folder and embed every file
\* in the `files` dictionary of the payload.
create_batch_payload(j) == JobFiles(j)

send_data_FileByFile(store, j, data) ==
    [store EXCEPT ![j] = IF data = {} THEN {}
                         ELSE {CHOOSE f \in data : \A g \in data : f <= g}]

\* sender.py send_data: one commit creates _temp_storage/<job>.json with the
\* whole payload.
send_data(store, j, data) == [store EXCEPT ![j] = data]

SendData_WithoutFolder(j) ==
    /\ senderPc[j] = "init"
    /\ \E folder_exists \in BOOLEAN, api_ok \in BOOLEAN :
        IF ~api_ok
        THEN /\ senderPc' = [senderPc EXCEPT ![j] = "send_failed"]
             /\ UNCHANGED <<temp_storage, payload, senderWrites, sentDay>>
        ELSE /\ senderPc' = [senderPc EXCEPT ![j] = IF folder_exists THEN "sent"
                                                    ELSE "config_error"]
             /\ temp_storage' = temp_storage \cup {j}
             /\ payload' = send_data(payload, j,
                                     IF folder_exists THEN create_batch_payload(j) ELSE {})
             /\ senderWrites' = [senderWrites EXCEPT ![j].payload = @ + 1]
             /\ sentDay' = [sentDay EXCEPT ![j] = today]
    /\ UNCHANGED <<triggers, stagingVars, mergeVars>>
    /\ UNCHANGED <<today, receiverLog, unpacks, written, removedBy>>
    /\ UNCHANGED notPipe

\* sender.py main, up to the commit of the payload: without the source folder
\* the sender exits early; otherwise the batch is built in memory and sent,
\* and a failed send ends the invocation.
SendData(j) ==
    /\ senderPc[j] = "init"
    /\ \E folder_exists \in BOOLEAN, api_ok \in BOOLEAN :
        IF ~folder_exists
        THEN /\ senderPc' = [senderPc EXCEPT ![j] = "config_error"]
             /\ UNCHANGED <<temp_storage, payload, senderWrites, sentDay>>
        ELSE IF ~api_ok
        THEN /\ senderPc' = [senderPc EXCEPT ![j] = "send_failed"]
             /\ UNCHANGED <<temp_storage, payload, senderWrites, sentDay>>
        ELSE /\ senderPc' = [senderPc EXCEPT ![j] = "sent"]
             /\ temp_storage' = temp_storage \cup {j}
             /\ payload' = send_data(payload, j, create_batch_payload(j))
             /\ senderWrites' = [senderWrites EXCEPT ![j].payload = @ + 1]
             /\ sentDay' = [sentDay EXCEPT ![j] = today]
    /\ UNCHANGED <<triggers, stagingVars, mergeVars>>
    /\ UNCHANGED <<today, receiverLog, unpacks, written, removedBy>>
    /\ UNCHANGED notPipe

\* sender.py trigger_workflow: the trigger file is dropped in .github/triggers/.
TriggerWorkflow(j) ==
    /\ senderPc[j] = "sent"
    /\ \E api_ok \in BOOLEAN :
        IF api_ok
        THEN /\ senderPc' = [senderPc EXCEPT ![j] = "triggered"]
             /\ triggers' = triggers \cup {j}
             /\ senderWrites' = [senderWrites EXCEPT ![j].trigger = @ + 1]
        ELSE /\ senderPc' = [senderPc EXCEPT ![j] = "trigger_failed"]
             /\ UNCHANGED <<triggers, senderWrites>>
    /\ UNCHANGED <<temp_storage, payload, stagingVars, receiverVars, mergeVars>>
    /\ UNCHANGED notPipe

\* The orders in which the entries of a `files` dictionary can be walked.
Orders(S) ==
    {q \in [1..Cardinality(S) -> S] : \A a, b \in DOMAIN q : a # b => q[a] # q[b]}

RECURSIVE DecodePayload_StopAtFailure(_)
DecodePayload_StopAtFailure(q) ==
    IF q = <<>> THEN [written |-> {}, skipped |-> {}]
    ELSE IF ~FILES[Head(q)].b64 THEN [written |-> {}, skipped |-> {Head(q)}]
    ELSE LET r == DecodePayload_StopAtFailure(Tail(q))
         IN  [written |-> r.written \cup {Head(q)}, skipped |-> r.skipped]

\* receiver.py: decode the entries of a payload (base64 -> files) one after the
\* other; an entry that does not decode is skipped.
RECURSIVE DecodePayload(_)
DecodePayload(q) ==
    IF q = <<>> THEN [written |-> {}, skipped |-> {}]
    ELSE LET r == DecodePayload(Tail(q))
         IN  IF FILES[Head(q)].b64
             THEN [written |-> r.written \cup {Head(q)}, skipped |-> r.skipped]
             ELSE [written |-> r.written, skipped |-> r.skipped \cup {Head(q)}]

\* How far the receiver gets with one trigger before it stops or fails:
\* nothing materialized, package unpacked, trigger cleaned, raw package deleted.
STAGES == {"failed", "unpacked", "cleaned", "deleted"}

clean_trigger_First(trigs, j, stage) == trigs \ {j}

\* receiver.py: the trigger file is cleaned up after the package is unpacked.
clean_trigger(trigs, j, stage) ==
    IF stage \in {"cleaned", "deleted"} THEN trigs \ {j} ELSE trigs

delete_raw_EvenIfFailed(store, j, stage) == store \ {j}

\* receiver.py: after successful unpack, delete the processed raw package.
delete_raw(store, j, stage) ==
    IF stage = "deleted" THEN store \ {j} ELSE store

\* receiver.py, one trigger: unpack its payload into a clean
\* _data_received/<job_name>/, clean up the trigger file, delete the raw
\* package; the run may fail after any of these.
Unpack(j) ==
    /\ j \in triggers
    /\ j \in temp_storage
    /\ \E stage \in STAGES :
        /\ IF stage = "failed"
           THEN UNCHANGED <<data_received, staged, receiverLog, unpacks, written>>
           ELSE /\ \E q \in Orders(payload[j]) :
                    LET r == DecodePayload(q)
                    IN  /\ staged' = (staged \ JobFiles(j)) \cup r.written
                        /\ written' = [written EXCEPT ![j] = r.written]
                        /\ receiverLog' = LogUnpack(receiverLog, j, stage, r.skipped)
                /\ data_received' = data_received \cup {j}
                /\ unpacks' = [unpacks EXCEPT ![j] = IF @ < 2 THEN @ + 1 ELSE @]
        /\ triggers' = clean_trigger(triggers, j, stage)
        /\ temp_storage' = delete_raw(temp_storage, j, stage)
        /\ payload' = [payload EXCEPT ![j] = IF j \in temp_storage' THEN @ ELSE {}]
        /\ removedBy' = [removedBy EXCEPT ![j] = IF j \in temp_storage' THEN @ ELSE "unpack"]
    /\ UNCHANGED <<senderPc, senderWrites, today, sentDay>>
    /\ UNCHANGED mergeVars
    /\ UNCHANGED notPipe

\* Age in days of the raw package of job j.
Age(j) == today - sentDay[j]

Expired_OnlyProcessed(store) ==
    {j \in store : Age(j) > RETENTION_DAYS /\ j \notin triggers}

\* Raw packages older than the retention period.
Expired(store) == {j \in store : Age(j) > RETENTION_DAYS}

\* The sweep logs what it deletes.
LogRetention(log, old) ==
    log \cup {[event |-> "retention", job |-> j, file |-> 0] : j \in old}

\* receiver.py, after the triggers of the run: enforce retention, keep only
\* the last 10 days in _temp_storage/, whether or not a package was processed.
EnforceRetention ==
    /\ LET old == Expired(temp_storage)
       IN  /\ temp_storage' = temp_storage \ old
           /\ payload' = [j \in Jobs |-> IF j \in old THEN {} ELSE payload[j]]
           /\ removedBy' = [j \in Jobs |-> IF j \in old THEN "retention" ELSE removedBy[j]]
           /\ receiverLog' = LogRetention(receiverLog, old)
    /\ UNCHANGED <<senderPc, triggers, senderWrites>>
    /\ UNCHANGED <<today, sentDay, unpacks, written>>
    /\ UNCHANGED <<stagingVars, mergeVars>>
    /\ UNCHANGED notPipe

\* Days that go by between two looks at the store.
DayStep == 5

\* Time goes by.
DayPasses ==
    /\ today + DayStep <= MaxDay
    /\ today' = today + DayStep
    /\ UNCHANGED <<sentDay, receiverLog, unpacks, written, removedBy>>
    /\ UNCHANGED <<deliveryVars, stagingVars, mergeVars>>
    /\ UNCHANGED notPipe

\* Step 1: scan _data_received/ for the package folders, oldest first.
StartMerge ==
    /\ mergePc = "idle"
    /\ clock < MaxClock
    /\ clock' = clock + 1
    /\ runOrder' = ProcessingOrder(data_received)
    /\ queue' = ProcessingOrder(data_received)
    /\ marked' = {}
    /\ rejections' = {}
    /\ mergePc' = "process"
    /\ UNCHANGED <<archive, manifest, decided, cleaned, stoppedAt, runEnds>>
    /\ UNCHANGED <<deliveryVars, receiverVars, stagingVars>>
    /\ runLog' = {}
    /\ summary' = NoSummary
    /\ UNCHANGED notPipe

ProcessFile_MovingFile ==
    /\ mergePc = "process"
    /\ queue # <<>>
    /\ LET f == Head(queue)
           rest == Tail(queue)
       IN  /\ IF Validate(f)
              THEN /\ \E written_ok \in BOOLEAN :
                        archive' = IF written_ok THEN CopyFile(archive, f, clock)
                                   ELSE archive
                   /\ staged' = staged \ {f}
                   /\ UNCHANGED rejections
              ELSE /\ rejections' = rejections \cup
                                      {[file |-> f, reason |-> RejectionReason(f)]}
                   /\ UNCHANGED <<archive, staged>>
           /\ decided' = [decided EXCEPT ![f] = IF Validate(f) THEN "merged" ELSE "rejected"]
           /\ queue' = rest
           /\ marked' = IF \E g \in Range(rest) : FILES[g].job = FILES[f].job
                        THEN marked ELSE marked \cup {FILES[f].job}
    /\ UNCHANGED <<manifest, mergePc, runOrder, clock, cleaned, stoppedAt, runEnds>>
    /\ UNCHANGED <<deliveryVars, receiverVars, data_received>>
    /\ runLog' = LogFile(runLog, Head(queue),
                       IF Validate(Head(queue)) THEN "merged" ELSE "rejected")
    /\ UNCHANGED summary
    /\ UNCHANGED notPipe

ProcessFile_AbortingPackage ==
    /\ mergePc = "process"
    /\ queue # <<>>
    /\ LET f == Head(queue)
           rest == IF Validate(f) THEN Tail(queue)
                   ELSE SelectSeq(Tail(queue), LAMBDA g : FILES[g].job # FILES[f].job)
       IN  /\ IF Validate(f)
              THEN /\ archive' = CopyFile(archive, f, clock)
                   /\ UNCHANGED rejections
              ELSE /\ rejections' = rejections \cup
                                      {[file |-> f, reason |-> RejectionReason(f)]}
                   /\ UNCHANGED archive
           /\ decided' = [decided EXCEPT ![f] = IF Validate(f) THEN "merged" ELSE "rejected"]
           /\ queue' = rest
           /\ marked' = IF \E g \in Range(rest) : FILES[g].job = FILES[f].job
                        THEN marked ELSE marked \cup {FILES[f].job}
    /\ UNCHANGED <<manifest, mergePc, runOrder, clock, cleaned, stoppedAt, runEnds>>
    /\ UNCHANGED <<deliveryVars, receiverVars, stagingVars>>
    /\ runLog' = LogFile(runLog, Head(queue),
                       IF Validate(Head(queue)) THEN "merged" ELSE "rejected")
    /\ UNCHANGED summary
    /\ UNCHANGED notPipe

\* Steps 2 and 3, one file: validate it, copy it to its destination if valid,
\* list it as rejected otherwise; after the last file of a package the package
\* is marked for cleanup.
ProcessFile ==
    /\ mergePc = "process"
    /\ queue # <<>>
    /\ LET f == Head(queue)
           rest == Tail(queue)
       IN  /\ IF Validate(f)
              THEN /\ archive' = CopyFile(archive, f, clock)
                   /\ UNCHANGED rejections
              ELSE /\ rejections' = rejections \cup
                                      {[file |-> f, reason |-> RejectionReason(f)]}
                   /\ UNCHANGED archive
           /\ decided' = [decided EXCEPT ![f] = IF Validate(f) THEN "merged" ELSE "rejected"]
           /\ queue' = rest
           /\ marked' = IF \E g \in Range(rest) : FILES[g].job = FILES[f].job
                        THEN marked ELSE marked \cup {FILES[f].job}
    /\ UNCHANGED <<manifest, mergePc, runOrder, clock, cleaned, stoppedAt, runEnds>>
    /\ UNCHANGED <<deliveryVars, receiverVars, stagingVars>>
    /\ runLog' = LogFile(runLog, Head(queue),
                       IF Validate(Head(queue)) THEN "merged" ELSE "rejected")
    /\ UNCHANGED summary
    /\ UNCHANGED notPipe

\* Step 4: generate manifest.json.
Step4_GenerateManifest ==
    /\ mergePc = "process"
    /\ queue = <<>>
    /\ manifest' = GenerateManifest(archive, clock)
    /\ mergePc' = "score"
    /\ UNCHANGED <<archive, queue, runOrder, marked, rejections, clock, decided, cleaned,
                   stoppedAt, runEnds>>
    /\ UNCHANGED <<deliveryVars, receiverVars, stagingVars>>
    /\ UNCHANGED <<runLog, summary>>
    /\ UNCHANGED notPipe

\* Step 5: score all .sexyDuck files under docs/asset/data/.
Step5_ScoreAllFiles ==
    /\ mergePc = "score"
    /\ archive' = {ScoreFile(a, clock) : a \in archive}
    /\ mergePc' = "remanifest"
    /\ UNCHANGED <<manifest, queue, runOrder, marked, rejections, clock, decided, cleaned,
                   stoppedAt, runEnds>>
    /\ UNCHANGED <<deliveryVars, receiverVars, stagingVars>>
    /\ UNCHANGED <<runLog, summary>>
    /\ UNCHANGED notPipe

\* Step 6: regenerate the manifest after scoring.
Step6_RegenerateManifest ==
    /\ mergePc = "remanifest"
    /\ manifest' = GenerateManifest(archive, clock)
    /\ mergePc' = "cleanup"
    /\ runEnds' = [prev |-> runEnds.last,
                   last |-> [input |-> runOrder, archive |-> archive,
                             manifest |-> manifest', at |-> clock]]
    /\ UNCHANGED <<archive, queue, runOrder, marked, rejections, clock, decided, cleaned,
                   stoppedAt>>
    /\ UNCHANGED <<deliveryVars, receiverVars, stagingVars>>
    /\ UNCHANGED <<runLog, summary>>
    /\ UNCHANGED notPipe

Step7_Cleanup_AnyFolder ==
    /\ mergePc = "cleanup"
    /\ \E j \in data_received :
        /\ data_received' = data_received \ {j}
        /\ staged' = staged \ JobFiles(j)
        /\ marked' = marked \ {j}
        /\ cleaned' = cleaned \cup {j}
        /\ runLog' = LogCleanup(runLog, j)
    /\ UNCHANGED <<archive, manifest, mergePc, queue, runOrder, rejections, clock, decided,
                   stoppedAt, runEnds>>
    /\ UNCHANGED <<deliveryVars, receiverVars>>
    /\ UNCHANGED summary
    /\ UNCHANGED notPipe

\* Step 7: delete a processed package folder from _data_received/.
Step7_Cleanup ==
    /\ mergePc = "cleanup"
    /\ \E j \in marked :
        /\ data_received' = data_received \ {j}
        /\ staged' = staged \ JobFiles(j)
        /\ marked' = marked \ {j}
        /\ cleaned' = cleaned \cup {j}
        /\ runLog' = LogCleanup(runLog, j)
    /\ UNCHANGED <<archive, manifest, mergePc, queue, runOrder, rejections, clock, decided,
                   stoppedAt, runEnds>>
    /\ UNCHANGED <<deliveryVars, receiverVars>>
    /\ UNCHANGED summary
    /\ UNCHANGED notPipe

\* The run ends with its summary.
FinishMerge ==
    /\ mergePc = "cleanup"
    /\ marked = {}
    /\ mergePc' = "idle"
    /\ stoppedAt' = "finished"
    /\ UNCHANGED <<archive, manifest, queue, runOrder, marked, rejections, clock, decided,
                   cleaned, runEnds>>
    /\ UNCHANGED <<deliveryVars, receiverVars, stagingVars>>
    /\ summary' = Summarize(runLog, rejections, staged)
    /\ UNCHANGED runLog
    /\ UNCHANGED notPipe

MergeFails_RemovingUnlisted ==
    /\ mergePc # "idle"
    /\ mergePc' = "idle"
    /\ stoppedAt' = mergePc
    /\ runEnds' = IF mergePc = "cleanup" THEN runEnds ELSE [prev |-> NoRun, last |-> NoRun]
    /\ archive' = {a \in archive : \E e \in manifest.files : e.relative_path = a.path}
    /\ UNCHANGED <<manifest, queue, runOrder, marked, rejections, clock, decided, cleaned>>
    /\ UNCHANGED <<deliveryVars, receiverVars, stagingVars>>
    /\ summary' = Summarize(runLog, rejections, staged)
    /\ UNCHANGED runLog
    /\ UNCHANGED notPipe

MergeFails_LosingStaged ==
    /\ mergePc # "idle"
    /\ mergePc' = "idle"
    /\ stoppedAt' = mergePc
    /\ data_received' = {}
    /\ staged' = {}
    /\ UNCHANGED <<archive, manifest, queue, runOrder, marked, rejections, clock, decided,
                   cleaned, runEnds>>
    /\ UNCHANGED <<deliveryVars, receiverVars>>
    /\ summary' = Summarize(runLog, rejections, staged)
    /\ UNCHANGED runLog
    /\ UNCHANGED notPipe

\* The run fails partway (script error, runner lost); what it wrote stays.
MergeFails ==
    /\ mergePc # "idle"
    /\ mergePc' = "idle"
    /\ stoppedAt' = mergePc
    /\ runEnds' = IF mergePc = "cleanup" THEN runEnds ELSE [prev |-> NoRun, last |-> NoRun]
    /\ UNCHANGED <<archive, manifest, queue, runOrder, marked, rejections, clock, decided,
                   cleaned>>
    /\ UNCHANGED <<deliveryVars, receiverVars, stagingVars>>
    /\ summary' = Summarize(runLog, rejections, staged)
    /\ UNCHANGED runLog
    /\ UNCHANGED notPipe

\* A scheduled run that starts after the last time stamp the model follows.
StartMergeLate ==
    /\ mergePc = "idle"
    /\ clock = MaxClock
    /\ runOrder' = ProcessingOrder(data_received)
    /\ queue' = ProcessingOrder(data_received)
    /\ marked' = {}
    /\ rejections' = {}
    /\ mergePc' = "process"
    /\ UNCHANGED <<archive, manifest, clock, decided, cleaned, stoppedAt, runEnds>>
    /\ UNCHANGED <<deliveryVars, receiverVars, stagingVars>>
    /\ runLog' = {}
    /\ summary' = NoSummary
    /\ UNCHANGED notPipe

\* A run fails partway after a run that did not.
FailsAfterGoodRun == MergeFails /\ stoppedAt \in {"none", "finished"}

\* Sender invocations the delivery is followed for.
NumSent == 2

\* The sender's invocation commits the payload.
PayloadSent(j) == SendData(j) /\ senderPc'[j] = "sent"

\* The sender's invocation drops the trigger.
Triggered(j) == TriggerWorkflow(j) /\ senderPc'[j] = "triggered"

\* The receiver handles a trigger to the end.
Unpacked(j) == Unpack(j) /\ j \notin temp_storage'

\* The merge runs, fed by deliveries that go through within the retention
\* period; failing deliveries and the passing days are followed in SpecDelivery.
Next ==
    \/ \E j \in Jobs : PayloadSent(j)
    \/ \E j \in Jobs : Triggered(j)
    \/ \E j \in Jobs : Unpacked(j)
    \/ StartMerge
    \/ ProcessFile
    \/ Step4_GenerateManifest
    \/ Step5_ScoreAllFiles
    \/ Step6_RegenerateManifest
    \/ Step7_Cleanup
    \/ FinishMerge
    \/ MergeFails


\* Sender and receiver over the days, the merge left aside.
NextDelivery ==
    \/ \E j \in 1..NumSent : SendData(j)
    \/ \E j \in 1..NumSent : TriggerWorkflow(j)
    \/ \E j \in 1..NumSent : Unpack(j)
    \/ EnforceRetention
    \/ DayPasses

\* The scheduled merge runs without end, each failed run followed by one that
\* does not fail.
NextResume ==
    \/ \E j \in 1..NumSent : PayloadSent(j)
    \/ \E j \in 1..NumSent : Triggered(j)
    \/ \E j \in 1..NumSent : Unpacked(j)
    \/ StartMerge
    \/ StartMergeLate
    \/ ProcessFile
    \/ Step4_GenerateManifest
    \/ Step5_ScoreAllFiles
    \/ Step6_RegenerateManifest
    \/ Step7_Cleanup
    \/ FinishMerge
    \/ FailsAfterGoodRun

\* The sender's invocation commits the payload on the first day.
SentFirstDay(j) == PayloadSent(j) /\ today = 0

\* Packages sent on the first day, then receiver runs, retention sweeps and
\* merge runs as the days go by: what the runs do and what they put out.
NextOutput ==
    \/ \E j \in 1..NumSent : SentFirstDay(j)
    \/ \E j \in 1..NumSent : Triggered(j)
    \/ \E j \in 1..NumSent : Unpacked(j)
    \/ EnforceRetention
    \/ DayPasses
    \/ StartMerge
    \/ ProcessFile
    \/ Step4_GenerateManifest
    \/ Step5_ScoreAllFiles
    \/ Step6_RegenerateManifest
    \/ Step7_Cleanup
    \/ FinishMerge
    \/ MergeFails

\* The next step of the merge workflow: a scheduled run starts, or the run
\* under way takes its next step.
RunStep ==
    \/ StartMerge
    \/ StartMergeLate
    \/ ProcessFile
    \/ Step4_GenerateManifest
    \/ Step5_ScoreAllFiles
    \/ Step6_RegenerateManifest
    \/ Step7_Cleanup
    \/ FinishMerge

\* The workflow runs daily and a run goes on until it ends or fails; the
\* receiver handles the waiting triggers.
FairResume ==
    /\ WF_vars(RunStep)
    /\ WF_vars(\E j \in 1..NumSent : Unpacked(j))

----------------------------------------------------------------------------
\* The validator on its own, over the attributes a file can have.

NoReport == [folder |-> "", json |-> FALSE, status |-> "", error_occurred |-> FALSE,
             mock_mode |-> FALSE, size |-> 0, none |-> TRUE]

\* Largest file size the validator is tried on.
MaxSize == 2

\* Files by convention (in a project folder or flat), well-formedness, status,
\* error flag, mock flag and size.
Reports ==
    [folder : {"", "1643_LHH"}, json : BOOLEAN, status : {"completed", "failed", "running"},
     error_occurred : BOOLEAN, mock_mode : BOOLEAN, size : 0..MaxSize, none : {FALSE}]

InitValidate ==
    /\ report = NoReport
    /\ verdict = "none"

\* The merge comes to a file.
NextReport ==
    /\ \E r \in Reports : report' = r
    /\ verdict' = "none"
    /\ UNCHANGED notValidate

\* Steps 2 and 3: validate the file.
ValidateFile ==
    /\ report # NoReport
    /\ verdict = "none"
    /\ verdict' = IF validate_file(report) THEN "accepted" ELSE "rejected"
    /\ UNCHANGED report
    /\ UNCHANGED notValidate

NextValidate ==
    \/ NextReport
    \/ ValidateFile

----------------------------------------------------------------------------
\* Concurrency control of the workflows.

\* Data Merge (daily, 00:00 UTC) and Cache Bust (daily, 02:00 UTC).
Workflows == {"data-merge", "cache-bust"}

\* Runs requested (by the schedule, a push or by hand) the model follows.
MaxRuns == 4

Runs == 1..MaxRuns

InitSchedule ==
    /\ runWorkflow = [r \in Runs |-> "none"]
    /\ runState = [r \in Runs |-> "none"]

\* The runs of workflow w that are in the given state.
RunsIn(w, st) == {r \in Runs : runWorkflow[r] = w /\ runState[r] = st}

RequestRun_CancelInProgress(w) ==
    /\ \E r \in Runs :
        /\ runState[r] = "none"
        /\ \A q \in Runs : q < r => runState[q] # "none"
        /\ runWorkflow' = [runWorkflow EXCEPT ![r] = w]
        /\ runState' = [q \in Runs |-> IF q = r THEN "in_progress"
                                       ELSE IF q \in RunsIn(w, "in_progress") THEN "cancelled"
                                       ELSE runState[q]]
    /\ UNCHANGED notSchedule

\* A run of workflow w is requested. concurrency: group: <workflow>,
\* cancel-in-progress: false: it starts if no run of the workflow is in
\* progress and is queued otherwise.
RequestRun(w) ==
    /\ \E r \in Runs :
        /\ runState[r] = "none"
        /\ \A q \in Runs : q < r => runState[q] # "none"
        /\ runWorkflow' = [runWorkflow EXCEPT ![r] = w]
        /\ runState' = [runState EXCEPT ![r] = IF RunsIn(w, "in_progress") = {}
                                               THEN "in_progress" ELSE "queued"]
    /\ UNCHANGED notSchedule

\* The run in progress ends; the run of its workflow that has waited longest
\* starts.
FinishRun(r) ==
    /\ runState[r] = "in_progress"
    /\ LET waiting == RunsIn(runWorkflow[r], "queued")
       IN  runState' = [q \in Runs |->
                            IF q = r THEN "completed"
                            ELSE IF q \in waiting /\ \A x \in waiting : q <= x
                                 THEN "in_progress"
                            ELSE runState[q]]
    /\ UNCHANGED runWorkflow
    /\ UNCHANGED notSchedule

NextSchedule ==
    \/ \E w \in Workflows : RequestRun(w)
    \/ \E r \in Runs : FinishRun(r)

----------------------------------------------------------------------------
\* DashboardApp.prototype.loadSexyDuckData.

\* Files listed in the manifest the model follows.
MaxFiles == 3

\* What the fetch of the manifest comes to: fetch rejects, the response is not
\* ok, its body is not JSON, the JSON has no `files` list, or all is well.
ManifestOutcomes == {"fetch_error", "not_ok", "bad_json", "no_files", "ok"}

\* What the fetch of a listed file comes to: fetch rejects, the response is
\* not ok, its body is not JSON, the JSON is null (transformSexyDuckData
\* throws on it), or all is well.
FileOutcomes == {"fetch_error", "not_ok", "bad_json", "null_json", "ok"}

FileLists == UNION {[1..n -> FileOutcomes] : n \in 0..MaxFiles}

InitLoader ==
    /\ loadPc = "idle"
    /\ manifestFetch = "ok"
    /\ manifestFiles = <<>>
    /\ nextFile = 1
    /\ this_data = <<>>
    /\ this_filteredData = <<>>
    /\ loadedCount = 0
    /\ skippedCount = 0
    /\ shownError = ""
    /\ thrown = FALSE

\* transformSexyDuckData(sexDuckData, fileInfo): the record of the file at
\* index i of the manifest.
transformSexyDuckData(i) == [filename |-> i]

\* The call, with what the network will answer.
LoadSexyDuckData ==
    /\ loadPc \in {"idle", "done", "failed"}
    /\ \E m \in ManifestOutcomes, fl \in FileLists :
        /\ manifestFetch' = m
        /\ manifestFiles' = IF m \in {"ok"} THEN fl ELSE <<>>
    /\ loadPc' = "manifest"
    /\ shownError' = ""
    /\ thrown' = FALSE
    /\ UNCHANGED <<nextFile, this_data, this_filteredData, loadedCount, skippedCount>>
    /\ UNCHANGED notLoader

\* fetch('asset/data/manifest.json'); throw if not ok; manifestResponse.json();
\* this.data = []; the counters; the loop over manifest.files begins (and
\* throws if there is no such list). The outer catch shows the error and
\* rethrows it.
LoadManifest ==
    /\ loadPc = "manifest"
    /\ IF manifestFetch \in {"fetch_error", "not_ok", "bad_json"}
       THEN /\ shownError' = "Failed to load SexyDuck data"
            /\ thrown' = TRUE
            /\ loadPc' = "failed"
            /\ UNCHANGED <<this_data, loadedCount, skippedCount, nextFile>>
       ELSE /\ this_data' = <<>>
            /\ loadedCount' = 0
            /\ skippedCount' = 0
            /\ nextFile' = 1
            /\ IF manifestFetch = "no_files"
               THEN /\ shownError' = "Failed to load SexyDuck data"
                    /\ thrown' = TRUE
                    /\ loadPc' = "failed"
               ELSE /\ loadPc' = "loop"
                    /\ UNCHANGED <<shownError, thrown>>
    /\ UNCHANGED <<manifestFetch, manifestFiles, this_filteredData>>
    /\ UNCHANGED notLoader

LoadFile_StoppingAtFailure ==
    /\ loadPc = "loop"
    /\ nextFile <= Len(manifestFiles)
    /\ IF manifestFiles[nextFile] = "ok"
       THEN /\ this_data' = Append(this_data, transformSexyDuckData(nextFile))
            /\ loadedCount' = loadedCount + 1
            /\ nextFile' = nextFile + 1
            /\ UNCHANGED skippedCount
       ELSE /\ skippedCount' = skippedCount + 1
            /\ nextFile' = Len(manifestFiles) + 1
            /\ UNCHANGED <<this_data, loadedCount>>
    /\ UNCHANGED <<loadPc, manifestFetch, manifestFiles, this_filteredData, shownError, thrown>>
    /\ UNCHANGED notLoader

\* One turn of the loop: fetch the file; if the response is not ok, skip it;
\* parse it, transform it and push the record to this.data; the inner catch
\* skips a file whose fetch, parsing or transformation throws.
LoadFile ==
    /\ loadPc = "loop"
    /\ nextFile <= Len(manifestFiles)
    /\ IF manifestFiles[nextFile] = "ok"
       THEN /\ this_data' = Append(this_data, transformSexyDuckData(nextFile))
            /\ loadedCount' = loadedCount + 1
            /\ UNCHANGED skippedCount
       ELSE /\ skippedCount' = skippedCount + 1
            /\ UNCHANGED <<this_data, loadedCount>>
    /\ nextFile' = nextFile + 1
    /\ UNCHANGED <<loadPc, manifestFetch, manifestFiles, this_filteredData, shownError, thrown>>
    /\ UNCHANGED notLoader

\* After the loop: throw if this.data is empty (the outer catch shows the
\* error and rethrows it), else this.filteredData = [...this.data].
AfterLoop ==
    /\ loadPc = "loop"
    /\ nextFile > Len(manifestFiles)
    /\ IF Len(this_data) = 0
       THEN /\ shownError' = "Failed to load SexyDuck data"
            /\ thrown' = TRUE
            /\ loadPc' = "failed"
            /\ UNCHANGED this_filteredData
       ELSE /\ this_filteredData' = this_data
            /\ loadPc' = "done"
            /\ UNCHANGED <<shownError, thrown>>
    /\ UNCHANGED <<manifestFetch, manifestFiles, nextFile, this_data, loadedCount, skippedCount>>
    /\ UNCHANGED notLoader

NextLoader ==
    \/ LoadSexyDuckData
    \/ LoadManifest
    \/ LoadFile
    \/ AfterLoop

-----------------------------------------------------------------------------
\* DataStorage: the browser's localStorage behind saveData and loadData
\* (docs/js/data/storage.js).

storageKey == "healthmetric_data"
cacheKey == "healthmetric_cache"
cacheExpiry == 24 * 60 * 60 * 1000

StorageKeys == {storageKey, cacheKey}

\* The clock advances half an expiry period at a time, MaxTicks times.
MaxTicks == 3
Tick == cacheExpiry \div 2

\* JavaScript values handed to saveData: a number, a Date, NaN.
Null == [type |-> "null", v |-> ""]
NoData == [type |-> "undefined", v |-> ""]
IsoDates == {"1970-01-01T00:00:00.000Z"}
DataValues ==
    {[type |-> "number", v |-> "1"], [type |-> "number", v |-> "NaN"]}
        \cup {[type |-> "Date", v |-> d] : d \in IsoDates}

Quote(str) == "\"" \o str \o "\""

\* JSON.stringify: NaN and null become null, a Date becomes the string of its
\* toJSON().
JSON_stringify(x) ==
    CASE x.type = "number" -> IF x.v = "NaN" THEN "null" ELSE x.v
      [] x.type = "Date" -> Quote(x.v)
      [] x.type = "string" -> Quote(x.v)
      [] x.type = "null" -> "null"

\* JSON.parse of the texts JSON_stringify produces.
JSON_parse(text) ==
    IF text = "null" THEN Null
    ELSE IF \E d \in IsoDates : text = Quote(d)
    THEN [type |-> "string", v |-> CHOOSE d \in IsoDates : text = Quote(d)]
    ELSE [type |-> "number", v |-> text]

\* Items of localStorage: none under the key, a text that is not JSON, or
\* the text saveData writes, {data, timestamp, version}.
NoItem == [text |-> "none", data |-> "", timestamp |-> 0, version |-> ""]
Garbage == [text |-> "garbage", data |-> "", timestamp |-> 0, version |-> ""]
Item(d, t) == [text |-> "json", data |-> d, timestamp |-> t, version |-> "1.0"]

NotLoaded == [key |-> "", result |-> NoData, threw |-> FALSE]

InitStorage ==
    /\ localStorage = [k \in StorageKeys |-> NoItem]
    /\ dateNow = 0
    /\ lastCall = [k \in StorageKeys |-> NoData]
    /\ lastSaved = [k \in StorageKeys |-> NoData]
    /\ loaded = NotLoaded

\* saveData(data, key): setItem of the stringified entry; a setItem that
\* throws (quota exceeded) leaves the item as it was and saveData throws.
SaveData(d, key) ==
    /\ \E setItem \in {"ok", "throws"} :
          /\ localStorage' =
                IF setItem = "ok"
                THEN [localStorage EXCEPT ![key] = Item(JSON_stringify(d), dateNow)]
                ELSE localStorage
          /\ lastSaved' = IF setItem = "ok"
                          THEN [lastSaved EXCEPT ![key] = d]
                          ELSE lastSaved
    /\ lastCall' = [lastCall EXCEPT ![key] = d]
    /\ UNCHANGED <<dateNow, loaded>>
    /\ UNCHANGED notStorage

isDataExpired_Never(timestamp) == FALSE

isDataExpired(timestamp) == dateNow - timestamp > cacheExpiry

\* The body of loadData's try block: what it returns or throws, and whether
\* it has removed the key.
TryLoadData(key) ==
    LET stored == localStorage[key] IN
    IF stored.text = "none"
    THEN [threw |-> FALSE, value |-> Null, removed |-> FALSE]
    ELSE IF stored.text = "garbage"
    THEN [threw |-> TRUE, value |-> NoData, removed |-> FALSE]
    ELSE IF isDataExpired(stored.timestamp)
    THEN [threw |-> FALSE, value |-> Null, removed |-> TRUE]
    ELSE [threw |-> FALSE, value |-> JSON_parse(stored.data), removed |-> FALSE]

\* loadData(key): the catch turns whatever the body throws into null.
LoadData(key) ==
    LET r == TryLoadData(key) IN
    /\ loaded' = [key |-> key,
                  result |-> IF r.threw THEN Null ELSE r.value,
                  threw |-> FALSE]
    /\ localStorage' = IF r.removed
                       THEN [localStorage EXCEPT ![key] = NoItem]
                       ELSE localStorage
    /\ UNCHANGED <<dateNow, lastCall, lastSaved>>
    /\ UNCHANGED notStorage

\* Something other than saveData leaves a text that is not JSON under the key.
WriteGarbage(key) ==
    /\ localStorage[key] # Garbage
    /\ localStorage' = [localStorage EXCEPT ![key] = Garbage]
    /\ UNCHANGED <<dateNow, lastCall, lastSaved, loaded>>
    /\ UNCHANGED notStorage

\* Time passes.
ClockTick ==
    /\ dateNow < MaxTicks * Tick
    /\ dateNow' = dateNow + Tick
    /\ UNCHANGED <<localStorage, lastCall, lastSaved, loaded>>
    /\ UNCHANGED notStorage

NextStorage ==
    \/ \E d \in DataValues, key \in StorageKeys : SaveData(d, key)
    \/ \E key \in StorageKeys : LoadData(key)
    \/ \E key \in StorageKeys : WriteGarbage(key)
    \/ ClockTick

-----------------------------------------------------------------------------
\* ToastNotification: show, hide and their timers
\* (docs/js/components/ToastNotification.js).

maxToasts == 3
defaultDuration == 4000

\* Number of show calls, and of removal timers pending for one toast.
MaxShows == 5
MaxPending == 2

ToastIds == 1..MaxShows
Durations == {0, defaultDuration}

InitToast ==
    /\ toasts = <<>>
    /\ container = <<>>
    /\ hiding = {}
    /\ autoHide = {}
    /\ removal = [id \in ToastIds |-> 0]
    /\ shows = 0

Without(seq, id) == SelectSeq(seq, LAMBDA x : x # id)

Tracked(id) == \E i \in DOMAIN toasts : toasts[i] = id

\* hide(id) applied to the timers and classes given: nothing for an id that is
\* not tracked; otherwise clears the auto-hide timer, starts the hide
\* animation and sets the timer that removes the toast 300 ms later.
HideEffect(id, auto, hid, rem) ==
    IF ~Tracked(id)
    THEN [autoHide |-> auto, hiding |-> hid, removal |-> rem]
    ELSE [autoHide |-> auto \ {id},
          hiding |-> hid \cup {id},
          removal |-> [rem EXCEPT ![id] = @ + 1]]

\* show(content, type, icon, duration): at capacity hides the oldest toast,
\* then appends the new toast, tracks it and sets its auto-hide timer.
Show(duration) ==
    /\ shows < MaxShows
    /\ LET id == shows + 1
           atCapacity == Len(toasts) >= maxToasts
           h == IF atCapacity
                THEN HideEffect(Head(toasts), autoHide, hiding, removal)
                ELSE [autoHide |-> autoHide, hiding |-> hiding, removal |-> removal]
       IN /\ atCapacity => removal[Head(toasts)] < MaxPending
          /\ container' = Append(container, id)
          /\ toasts' = Append(toasts, id)
          /\ autoHide' = IF duration > 0 THEN h.autoHide \cup {id} ELSE h.autoHide
          /\ hiding' = h.hiding
          /\ removal' = h.removal
          /\ shows' = id
    /\ UNCHANGED notToast

\* hide(id), from the close button of an attached toast or from hideAll.
Hide(id) ==
    /\ \E i \in DOMAIN container : container[i] = id
    /\ removal[id] < MaxPending
    /\ LET h == HideEffect(id, autoHide, hiding, removal)
       IN /\ autoHide' = h.autoHide
          /\ hiding' = h.hiding
          /\ removal' = h.removal
    /\ UNCHANGED <<toasts, container, shows>>
    /\ UNCHANGED notToast

\* The auto-hide timer of a toast fires: hide(id).
AutoHideFires(id) ==
    /\ id \in autoHide
    /\ removal[id] < MaxPending
    /\ LET h == HideEffect(id, autoHide \ {id}, hiding, removal)
       IN /\ autoHide' = h.autoHide
          /\ hiding' = h.hiding
          /\ removal' = h.removal
    /\ UNCHANGED <<toasts, container, shows>>
    /\ UNCHANGED notToast

\* A removal timer fires: the element leaves its parent, if it has one, and
\* the id leaves this.toasts.
RemovalFires(id) ==
    /\ removal[id] > 0
    /\ removal' = [removal EXCEPT ![id] = @ - 1]
    /\ container' = Without(container, id)
    /\ toasts' = Without(toasts, id)
    /\ UNCHANGED <<hiding, autoHide, shows>>
    /\ UNCHANGED notToast

NextToast ==
    \/ \E duration \in Durations : Show(duration)
    \/ \E id \in ToastIds : AutoHideFires(id)
    \/ \E id \in ToastIds : Hide(id)
    \/ \E id \in ToastIds : RemovalFires(id)

Init == InitWeek /\ InitPush /\ InitPipe /\ InitValidate /\ InitSchedule /\ InitLoader /\ InitStorage /\ InitToast

Spec == Init /\ [][Next]_vars

SpecDelivery == Init /\ [][NextDelivery]_vars

SpecValidate == Init /\ [][NextValidate]_vars

SpecResume == Init /\ [][NextResume]_vars /\ FairResume

SpecWeek == Init /\ [][NextWeek]_vars

SpecPush == Init /\ [][NextPush]_vars

SpecConcurrent == Init /\ [][NextConcurrent]_vars

SpecSchedule == Init /\ [][NextSchedule]_vars

SpecLoader == Init /\ [][NextLoader]_vars

\* saveData and loadData calls on the two keys while time passes.
SpecStorage == Init /\ [][NextStorage]_vars

\* show and hide calls and the firing of their timers.
SpecToast == Init /\ [][NextToast]_vars

SpecOutput == Init /\ [][NextOutput]_vars

----------------------------------------------------------------------------
\* Week claims

IsMonday(d) == getDay(d) = 1

Before(a, b) == a.day < b.day \/ (a.day = b.day /\ a.hours < b.hours)

AtOrBefore(a, b) == a = b \/ Before(a, b)

PlusDays(d, k) == [day |-> d.day + k, hours |-> d.hours]

\* w is a Monday and w <= d < w + 7 days
WeekOf(w, d) == IsMonday(w) /\ AtOrBefore(w, d) /\ Before(d, PlusDays(w, 7))

C9_FormulaAsStated ==
    formulaWeek # NoDate => WeekOf(formulaWeek, setHours(date, 0))

\* C9 amended: with weekday numbered 0 = Sunday .. 6 = Saturday (getDay), the
\* formula date - ((weekday + 6) mod 7) is the week folder the merge files the
\* date under and the day getWeekStart returns; it is the Monday at or before
\* the date: a Monday maps to itself, a Sunday to the Monday six days earlier.
C9_FormulaWithGetDayNumbering ==
    LET f == FormulaWeekStart_getDay(date.day)
    IN  /\ weekFolder # NoDate =>
            /\ weekFolder.day = f
            /\ WeekOf(weekFolder, setHours(date, 0))
            /\ getDay(date) = 1 => weekFolder.day = date.day
            /\ getDay(date) = 0 => weekFolder.day = date.day - 6
        /\ aggWeekStart # NoDate => aggWeekStart.day = f
        /\ chartWeekStart # NoDate => chartWeekStart.day = f

\* A Sunday filed under the Monday six days before it.
C9_Witness ==
    /\ getDay(date) = 0
    /\ weekFolder # NoDate
    /\ weekFolder.day = date.day - 6
    /\ aggWeekStart # NoDate

----------------------------------------------------------------------------
\* Push-with-retry claims

\* C2: a single write makes at most 3 push attempts before it stops (each
\* rejected attempt being followed by a re-fetch and a re-application).
C2_AtMostThreeAttempts ==
    \A w \in Writers : pushAttempts[w] <= MAX_RETRIES

\* C3: once every allowed push attempt of a write has been rejected, the write
\* is not pushed again and does not end otherwise than as a failure surfaced
\* by the step; a write that did not reach the store is never a success.
C3_ExhaustionIsHardFailure ==
    \A w \in Writers :
        /\ pushRejected[w] >= MAX_RETRIES /\ pushPc[w] \in {"push", "done"}
              => stepResult[w] = "failure"
        /\ stepResult[w] = "success" => pushed[w]

----------------------------------------------------------------------------
\* Merge pipeline claims

Oct6 == DayNumber(2025, 10, 6)

Oct11 == DayNumber(2025, 10, 11)

Oct13 == DayNumber(2025, 10, 13)

\* Every file unpacked into package folder j has an archive file at its
\* destination or a validation rejection.
AllFilesDecided(j) ==
    \A f \in DecodePayload(SeqOfSet(JobFiles(j))).written :
        \/ decided[f] = "rejected"
        \/ decided[f] = "merged" /\ \E a \in archive : a.path = Destination(f)

\* C1 as stated: the staged package, its raw payload and its trigger are
\* deleted only after every file of the package was merged or rejected.
C1_AsStated ==
    \A j \in Jobs :
        /\ j \in cleaned => AllFilesDecided(j)
        /\ senderPc[j] # "init" /\ j \notin temp_storage => AllFilesDecided(j)
        /\ senderPc[j] = "triggered" /\ j \notin triggers => AllFilesDecided(j)

\* C1 amended: the cleanup step deletes a staged package only after every
\* file of it was merged into the archive or rejected by validation.
C1_PackageDeletedAfterDecisions ==
    \A j \in cleaned : AllFilesDecided(j)

\* Package 1, with one merged and one rejected file, has been deleted while
\* another package is still staged.
C1_Witness ==
    /\ 1 \in cleaned
    /\ decided[1] = "merged"
    /\ decided[2] = "rejected"
    /\ data_received # {}

ArchiveState(arch) ==
    {[path |-> a.path, content |-> a.content, filesize |-> a.filesize, scored |-> a.scored] :
        a \in arch}

ManifestContent(m) ==
    [version |-> m.version, total_files |-> m.total_files,
     files |-> {[relative_path |-> e.relative_path, filesize |-> e.filesize] : e \in m.files}]

\* Two consecutive pipeline passes ran on the same staged input of valid files.
SameValidInputTwice ==
    /\ runEnds.prev # NoRun
    /\ runEnds.prev.input = runEnds.last.input
    /\ runEnds.last.input # <<>>
    /\ \A i \in DOMAIN runEnds.last.input : RejectionReason(runEnds.last.input[i]) = "ok"

\* C4 as stated: the second pass leaves an archive and a manifest identical to
\* those of the first.
C4_AsStated ==
    SameValidInputTwice =>
        /\ ArchiveState(runEnds.last.archive) = ArchiveState(runEnds.prev.archive)
        /\ runEnds.last.manifest = runEnds.prev.manifest

\* C4 amended: the second pass leaves the same archive files (paths, contents,
\* sizes) and a manifest with the same version, totals and entries; only the
\* time stamps generated_at and last_modified differ.
C4_IdempotentUpToTimestamps ==
    SameValidInputTwice =>
        /\ ArchiveState(runEnds.last.archive) = ArchiveState(runEnds.prev.archive)
        /\ ManifestContent(runEnds.last.manifest) = ManifestContent(runEnds.prev.manifest)

\* Package 2 (two valid files) went through two consecutive passes while a file
\* of an earlier run sits elsewhere in the archive.
C4_Witness ==
    /\ SameValidInputTwice
    /\ runEnds.last.input = <<3, 4>>
    /\ \E a \in runEnds.last.archive : a.content = 5

ManifestMatchesArchive ==
    /\ \A a \in archive :
          Cardinality({e \in manifest.files : e.relative_path = a.path}) = 1
    /\ \A e \in manifest.files : \E a \in archive : a.path = e.relative_path

\* C5 as stated: between runs, whatever the runs did and wherever they failed,
\* the manifest lists exactly the files of the archive.
C5_AsStated ==
    mergePc = "idle" => ManifestMatchesArchive

\* C5 amended: once a run has rebuilt the manifest (step 4), and from then on
\* until the next run starts, the manifest lists exactly the files of the
\* archive, whatever earlier runs did and wherever they failed.
C5_ManifestMatchesAfterRebuild ==
    \/ mergePc \in {"score", "remanifest", "cleanup"}
    \/ mergePc = "idle" /\ stoppedAt \in {"none", "score", "remanifest", "cleanup", "finished"}
    => ManifestMatchesArchive

\* The previous run failed while processing files, and this run has rebuilt the
\* manifest over an archive of several files.
C5_Witness ==
    /\ mergePc = "cleanup"
    /\ stoppedAt = "process"
    /\ Cardinality(archive) >= 2
    /\ \E a \in archive : \A f \in Range(runOrder) : a.content # FILES[f].content

\* Files of the run already processed.
Processed == {runOrder[i] : i \in 1..(Len(runOrder) - Len(queue))}

RECURSIVE LastAccepted(_, _)
LastAccepted(p, n) ==
    IF n = 0 THEN 0
    ELSE IF Validate(runOrder[n]) /\ Destination(runOrder[n]) = p THEN n
    ELSE LastAccepted(p, n - 1)

\* C7: when accepted files of a run are bound for the same archive path,
\* exactly one file exists at that path once they are merged, and its content
\* is that of the file written last; no copy of an earlier one remains.
C7_LastWriteWins ==
    mergePc # "idle" =>
        \A f \in Processed :
            Validate(f) =>
                LET p == Destination(f)
                    last == runOrder[LastAccepted(p, Len(runOrder) - Len(queue))]
                IN  /\ Cardinality({a \in archive : a.path = p}) = 1
                    /\ \A a \in archive : a.path = p => a.content = FILES[last].content
                    /\ f # last => \A a \in archive : a.content # FILES[f].content

\* Files 1 and 3 (same hub, project, week and model, different content) were
\* merged in one run, and the archive holds the content of file 3.
C7_Witness ==
    /\ mergePc = "cleanup"
    /\ {1, 3} \subseteq Processed
    /\ Destination(1) = Destination(3)
    /\ \E a \in archive : a.path = Destination(1) /\ a.content = 3

FileOfContent(c) == CHOOSE f \in DOMAIN FILES : FILES[f].content = c

----------------------------------------------------------------------------
\* Sender and receiver claims

\* C11: the retention sweep deletes every raw payload older than 10 days,
\* whether or not its trigger was processed, keeps every payload younger than
\* 10 days, and logs each payload it deletes.
C11_RetentionSweep ==
    [][EnforceRetention =>
          /\ \A j \in temp_storage : Age(j) > RETENTION_DAYS => j \notin temp_storage'
          /\ \A j \in temp_storage : Age(j) < RETENTION_DAYS => j \in temp_storage'
          /\ \A j \in temp_storage \ temp_storage' :
                [event |-> "retention", job |-> j, file |-> 0] \in receiverLog']_vars

\* The sweep deleted the payload of job 1, whose trigger is still waiting and
\* which was never unpacked, and logged it; the younger payload of job 2 is kept.
C11_Witness ==
    /\ removedBy[1] = "retention"
    /\ 1 \in triggers
    /\ unpacks[1] = 0
    /\ [event |-> "retention", job |-> 1, file |-> 0] \in receiverLog
    /\ 2 \in temp_storage
    /\ Age(2) < RETENTION_DAYS

\* The sender's invocation for job j committed a payload.
PayloadCreated(j) == senderWrites[j].payload > 0

\* C12 as stated: every payload the sender created is unpacked exactly once,
\* whatever runs fail and are run again, and is deleted right after its
\* successful unpack or by the retention sweep.
C12_AsStated ==
    \A j \in Jobs :
        /\ unpacks[j] <= 1
        /\ PayloadCreated(j) /\ j \notin temp_storage =>
              /\ unpacks[j] = 1
              /\ removedBy[j] \in {"unpack", "retention"}

\* C12 amended: a payload is unpacked only while it and its trigger are in the
\* store, so never after its deletion; a payload is deleted only by the
\* receiver after unpacking it at least once (a run that failed before the
\* deletion may have been followed by a second unpack) or by the retention
\* sweep once it is older than 10 days, possibly without ever being unpacked.
C12_UnpackedWhileStored ==
    [][\A j \in Jobs :
          /\ unpacks'[j] # unpacks[j] \/ written'[j] # written[j] =>
                j \in temp_storage /\ j \in triggers
          /\ j \in temp_storage /\ j \notin temp_storage' =>
                \/ removedBy'[j] = "unpack" /\ unpacks'[j] >= 1
                \/ removedBy'[j] = "retention" /\ Age(j) > RETENTION_DAYS
          /\ j \notin temp_storage /\ PayloadCreated(j) => j \notin temp_storage']_vars

\* The payload of job 1 was unpacked twice (the first run failed before it
\* cleaned the trigger) and then deleted by the receiver; the payload of job 2
\* was deleted by the sweep without ever being unpacked.
C12_Witness ==
    /\ unpacks[1] = 2
    /\ removedBy[1] = "unpack"
    /\ removedBy[2] = "retention"
    /\ unpacks[2] = 0

\* The package of job j is fully materialized in staging: the receiver has
\* gone through every entry of the payload and written each one that decodes.
Materialized(j) ==
    /\ unpacks[j] >= 1
    /\ written[j] = {f \in JobFiles(j) : FILES[f].b64}

\* C13: the receiver deletes the trigger and the raw payload of a package after
\* it has fully materialized the package, and a receiver that handles a trigger
\* to the end leaves both deleted; neither is deleted by the handling of the
\* trigger before the package is materialized.
C13_DeletedAfterMaterialized ==
    [][\A j \in Jobs :
          /\ j \in triggers /\ j \notin triggers' => Materialized(j)'
          /\ j \in temp_storage /\ j \notin temp_storage' /\ removedBy'[j] = "unpack" =>
                Materialized(j)'
          /\ Unpacked(j) =>
                Materialized(j)' /\ j \notin triggers' /\ j \notin temp_storage']_vars

\* Job 1 was handled to the end: unpacked, trigger and payload deleted; the
\* run on job 2 failed after the trigger was cleaned, its payload is still there.
C13_Witness ==
    /\ Materialized(1)
    /\ removedBy[1] = "unpack"
    /\ 1 \notin triggers
    /\ Materialized(2)
    /\ senderPc[2] = "triggered"
    /\ 2 \notin triggers
    /\ 2 \in temp_storage

\* The receiver logged that it skipped entry f of the payload of job j.
Skipped(j, f) == [event |-> "skipped", job |-> j, file |-> f] \in receiverLog

\* C14: when an entry of a payload does not decode, the receiver skips it,
\* still writes every other file of the payload to staging, and has not
\* deleted the trigger unless every file of the payload was written or skipped.
C14_PartialUnpack ==
    \A j \in Jobs :
        /\ unpacks[j] >= 1 =>
              /\ \A f \in JobFiles(j) : FILES[f].b64 => f \in written[j] /\ f \in staged
              /\ \A f \in JobFiles(j) : ~FILES[f].b64 =>
                    f \notin written[j] /\ f \notin staged /\ Skipped(j, f)
        /\ senderPc[j] = "triggered" /\ j \notin triggers =>
              \A f \in JobFiles(j) : f \in written[j] \/ Skipped(j, f)

\* Job 2's payload has an entry that does not decode: files 3 and 4 are in
\* staging, file 8 was skipped, and the trigger is deleted.
C14_Witness ==
    /\ ~FILES[8].b64
    /\ {3, 4} \subseteq staged
    /\ 8 \notin staged
    /\ Skipped(2, 8)
    /\ senderPc[2] = "triggered"
    /\ 2 \notin triggers

----------------------------------------------------------------------------
\* Failed runs, rejections and the copy step

\* A run has failed partway and package j is still staged, or waits with its
\* trigger and payload to be unpacked.
PendingAfterFailure(j) ==
    /\ mergePc = "idle"
    /\ stoppedAt \notin {"none", "finished"}
    /\ \/ j \in data_received
       \/ j \in triggers /\ j \in temp_storage

\* Every file of package j that reached staging was merged or rejected, and
\* the package was cleaned up.
Settled(j) ==
    /\ \A f \in JobFiles(j) : FILES[f].b64 => decided[f] \in {"merged", "rejected"}
    /\ j \in cleaned

\* What was merged stays in the archive, valid; what was rejected stays out.
StaysDecided ==
    /\ \A a \in archive : Validate(FileOfContent(a.content))
    /\ \A f \in FileIds :
          /\ decided[f] = "merged" =>
                decided'[f] = "merged" /\ \E a \in archive' : a.path = Destination(f)
          /\ decided[f] = "rejected" =>
                decided'[f] = "rejected" /\ \A a \in archive' : a.content # FILES[f].content

Waiting == {queue[i] : i \in DOMAIN queue}

\* C16: a rejected file does not end the run or the handling of its package:
\* every file the run set out to process is either still waiting in the loop
\* or has its own decision, an archive file at its destination if it is valid,
\* an entry in the rejection list otherwise; and the steps after the loop are
\* reached only with every file decided.
C16_RejectionDoesNotAbort ==
    mergePc # "idle" =>
        /\ \A i \in DOMAIN runOrder :
              LET f == runOrder[i]
              IN  \/ f \in Waiting /\ i > Len(runOrder) - Len(queue)
                  \/ Validate(f) /\ i <= Len(runOrder) - Len(queue)
                       /\ \E a \in archive : a.path = Destination(f)
                  \/ ~Validate(f) /\ i <= Len(runOrder) - Len(queue)
                       /\ [file |-> f, reason |-> RejectionReason(f)] \in rejections
        /\ mergePc \in {"score", "remanifest", "cleanup"} => queue = <<>>

\* Package 3 is processed in the order 5, 6, 9: file 6, between its siblings,
\* was rejected as mock data, files 5 and 9 were merged; file 2 was rejected
\* in the same run.
C16_Witness ==
    /\ mergePc = "cleanup"
    /\ \E i \in DOMAIN runOrder :
          i + 2 \in DOMAIN runOrder /\ runOrder[i] = 5 /\ runOrder[i + 1] = 6 /\ runOrder[i + 2] = 9
    /\ [file |-> 6, reason |-> "mock data"] \in rejections
    /\ [file |-> 2, reason |-> "status failed"] \in rejections
    /\ \E a \in archive : a.content = 5 /\ a.mtime = clock
    /\ \E a \in archive : a.content = 9 /\ a.mtime = clock

----------------------------------------------------------------------------
\* Validator claim

\* C17: a file is accepted only if it is well-formed JSON, its status is not
\* "failed", its error flag is not set, its mock flag is not set and its size
\* is not zero; a file that meets the five conditions is accepted; and the
\* verdict is the same for a file in a project folder as for a flat file.
C17_AcceptedOnlyIfAllFive ==
    verdict # "none" =>
        /\ verdict = "accepted" =>
              /\ report.json
              /\ report.status # "failed"
              /\ ~report.error_occurred
              /\ ~report.mock_mode
              /\ report.size # 0
        /\ verdict = "rejected" =>
              \/ ~report.json
              \/ report.status = "failed"
              \/ report.error_occurred
              \/ report.mock_mode
              \/ report.size = 0
        /\ \A r \in Reports :
              (\A k \in DOMAIN r \ {"folder"} : r[k] = report[k]) =>
                  (validate_file(r) <=> verdict = "accepted")

\* A flat file that breaks only the mock rule was rejected.
C17_Witness ==
    /\ verdict = "rejected"
    /\ report.folder = ""
    /\ report.json
    /\ report.status = "completed"
    /\ ~report.error_occurred
    /\ report.mock_mode
    /\ report.size > 0

----------------------------------------------------------------------------
\* Sender claims

\* The sender's invocation for job j has ended.
SenderEnded(j) == senderPc[j] \in {"triggered", "config_error", "send_failed", "trigger_failed"}

\* The store holds no payload of job j or the whole payload.
NoPartialPayload(j) ==
    \/ j \notin temp_storage /\ payload[j] = {}
    \/ j \in temp_storage /\ payload[j] = JobFiles(j)

\* C18 as stated: the store never holds a part of a payload, and an invocation
\* of the sender makes one durable write to the store.
C18_AsStated ==
    \A j \in Jobs :
        /\ NoPartialPayload(j)
        /\ senderWrites[j].payload + senderWrites[j].trigger <= 1
        /\ senderPc[j] = "triggered" => senderWrites[j].payload + senderWrites[j].trigger = 1

\* C18 amended: the store never holds a part of a payload, also when the
\* invocation fails or is interrupted; an invocation writes the payload at
\* most once, in one write, and an invocation that goes through makes a second
\* durable write, that of the trigger, after the payload's.
C18_NoPartialPayload ==
    \A j \in Jobs :
        /\ NoPartialPayload(j)
        /\ senderWrites[j].payload = IF senderPc[j] \in {"sent", "triggered", "trigger_failed"}
                                     THEN 1 ELSE 0
        /\ senderWrites[j].trigger = IF senderPc[j] = "triggered" THEN 1 ELSE 0
        /\ removedBy[j] = "none" /\ senderWrites[j].payload = 1 => payload[j] = JobFiles(j)

\* The invocation for job 1 was interrupted between payload and trigger: the
\* whole payload is in the store; the send of job 2 failed: no payload.
C18_Witness ==
    /\ senderPc[1] = "trigger_failed"
    /\ 1 \in temp_storage
    /\ payload[1] = {1, 2}
    /\ senderPc[2] = "send_failed"
    /\ 2 \notin temp_storage
    /\ payload[2] = {}

\* C19: an invocation of the sender that does not find its source folder ends
\* with the "folder not found" error and has written nothing: no payload in
\* _temp_storage/ and no trigger in .github/triggers/.
C19_MissingFolderWritesNothing ==
    \A j \in Jobs :
        senderPc[j] = "config_error" =>
            /\ senderWrites[j] = [payload |-> 0, trigger |-> 0]
            /\ j \notin temp_storage
            /\ payload[j] = {}
            /\ j \notin triggers

\* The invocation for job 1 did not find its source folder; the one for job 2
\* went through.
C19_Witness ==
    /\ senderPc[1] = "config_error"
    /\ temp_storage = {2}
    /\ triggers = {2}
    /\ senderPc[2] = "triggered"

\* A file of the staging area that passes the validation.
Accepted(f) == f \in written[FILES[f].job] /\ Validate(f)

\* The destination of f holds the data of f, or that of an accepted file copied
\* there over it (the scoring adds to the file in place).
AtDestination(f) ==
    \E a \in archive :
        /\ a.path = Destination(f)
        /\ \E g \in FileIds :
            /\ Accepted(g)
            /\ Destination(g) = Destination(f)
            /\ a.content = FILES[g].content

Rebuilt ==
    \/ mergePc \in {"score", "remanifest", "cleanup"}
    \/ mergePc = "idle" /\ stoppedAt \in {"score", "remanifest", "cleanup", "finished"}

\* C21: after a rebuild of the manifest (steps 4 and 6), and until the next run
\* starts, the manifest's total_files is the number of files in the archive.
C21_TotalsMatchArchive ==
    Rebuilt => manifest.total_files = Cardinality(archive)

\* A second run has rebuilt the manifest over files it copied and files of an
\* earlier run.
C21_Witness ==
    /\ mergePc = "score"
    /\ manifest.total_files >= 3
    /\ \E a \in archive : a.mtime = clock
    /\ \E a \in archive : a.mtime < clock

\* The run fails at a rebuild of the manifest: at step 4, all files processed,
\* or at step 6.
RebuildFails ==
    /\ MergeFails
    /\ \/ mergePc = "process" /\ queue = <<>>
       \/ mergePc = "remanifest"

MixedDestination(f) ==
    CASE f = 3 -> [hub |-> HUB, project |-> "1643_LHH",
                   week |-> DayNumber(2025, 10, 6), model |-> "ModelA"]
      [] f = 4 -> [hub |-> HUB, project |-> "1643_LHH",
                   week |-> DayNumber(2025, 10, 13), model |-> "ModelB"]
      [] f = 5 -> [hub |-> HUB, project |-> "MyCustomProject",
                   week |-> DayNumber(2025, 10, 6), model |-> "ModelC"]
      [] f = 9 -> [hub |-> HUB, project |-> "1643_LHH",
                   week |-> DayNumber(2025, 10, 13), model |-> "ModelD"]

C24_OneRunPerWorkflow ==
    /\ [](\A w \in Workflows :
            /\ Cardinality(RunsIn(w, "in_progress")) <= 1
            /\ RunsIn(w, "cancelled") = {}
            /\ RunsIn(w, "queued") # {} => RunsIn(w, "in_progress") # {})
    /\ [][\A r \in Runs :
            /\ runState[r] = "queued" /\ runState'[r] # "queued" =>
                  /\ runState'[r] = "in_progress"
                  /\ \E q \in RunsIn(runWorkflow[r], "in_progress") :
                        runState'[q] = "completed"
            /\ runState[r] = "in_progress" => runState'[r] \in {"in_progress", "completed"}
         ]_vars

\* A run of the data merge is in progress with two more waiting, one run of it
\* has completed, none was cancelled.
C24_Witness ==
    /\ Cardinality(RunsIn("data-merge", "completed")) = 1
    /\ Cardinality(RunsIn("data-merge", "in_progress")) = 1
    /\ Cardinality(RunsIn("data-merge", "queued")) = 2

\* The files the summary counts as rejected.
SummaryRejected == {r.file : r \in summary.rejected}

\* The summary counts each file the run set out to process once: as merged, as
\* rejected with the reason, or as pending.
SummaryAccounts ==
    /\ summary.produced
    /\ \A f \in Range(runOrder) :
        \/ /\ f \in summary.merged
           /\ f \notin SummaryRejected /\ f \notin summary.pending
           /\ f \in Processed /\ Validate(f)
        \/ /\ f \in SummaryRejected
           /\ f \notin summary.merged /\ f \notin summary.pending
           /\ f \in Processed
           /\ [file |-> f, reason |-> RejectionReason(f)] \in summary.rejected
           /\ RejectionReason(f) # "ok"
        \/ /\ f \in summary.pending
           /\ f \notin summary.merged /\ f \notin SummaryRejected
           /\ f \notin Processed
    /\ summary.merged \cup SummaryRejected \subseteq Range(runOrder)

\* What a step of a run merges or deletes is in the run's output after the
\* step: a file copied to the archive, a package folder deleted from the
\* staging area, a trigger file cleaned up, a raw package deleted after its
\* unpacking or by the retention sweep.
NothingSilently ==
    /\ mergePc = "process" /\ queue' # queue =>
          LET f == Head(queue)
          IN  \/ [event |-> "merged", file |-> f, job |-> FILES[f].job] \in runLog'
                 /\ \E a \in archive' : a.path = Destination(f) /\ a.content = FILES[f].content
              \/ [event |-> "rejected", file |-> f, job |-> FILES[f].job] \in runLog'
                 /\ archive' = archive
    /\ \A j \in data_received \ data_received' :
          [event |-> "deleted", file |-> 0, job |-> j] \in runLog'
    /\ \A j \in triggers \ triggers' :
          [event |-> "cleaned", job |-> j, file |-> 0] \in receiverLog'
    /\ \A j \in temp_storage \ temp_storage' :
          \/ [event |-> "deleted", job |-> j, file |-> 0] \in receiverLog'
          \/ [event |-> "retention", job |-> j, file |-> 0] \in receiverLog'

\* C25: every merge run that has ended, whether it finished or failed, has
\* put out a summary that counts each file of the run as merged, rejected
\* with its reason, or pending; and no step merges or deletes anything without
\* a line in the run's output, the deletions of the retention sweep included.
C25_SummaryAndNothingSilent ==
    /\ [](mergePc = "idle" /\ stoppedAt # "none" => SummaryAccounts)
    /\ [][NothingSilently]_vars

\* A run failed while processing: its summary counts a merged and a pending
\* file; the run before it had deleted nothing, and the retention sweep has
\* deleted a raw package that was never unpacked.
C25_Witness ==
    /\ mergePc = "idle"
    /\ stoppedAt = "process"
    /\ summary.merged = {1}
    /\ summary.pending = {2}
    /\ removedBy[2] = "retention"
    /\ unpacks[2] = 0
    /\ [event |-> "retention", job |-> 2, file |-> 0] \in receiverLog

\* All writers are through with their writes.
WritersFinished == \A w \in Writers : pushPc[w] \in {"idle", "done"}

\* Commits of writer w on origin/main.
CommitsOf(w) == Cardinality({i \in DOMAIN remoteLog : remoteLog[i] = w})

\* C26: a commit that origin/main has accepted stays on origin/main, whoever
\* pushes, pulls and pushes again afterwards: at any time origin/main holds
\* every commit it accepted, of the writers and of others (the senders'
\* payloads and triggers), and when all writers are through, the commit of
\* every writer whose step ended as a success is there.
C26_NoAcceptedWriteLost ==
    /\ \A w \in Writers \cup {0} : CommitsOf(w) = accepted[w]
    /\ WritersFinished =>
          \A w \in Writers : stepResult[w] = "success" /\ pushPc[w] = "done" =>
              CommitsOf(w) >= 1

\* Both writers had a push rejected, pulled and pushed again, a commit of
\* someone else landed in between, and all three commits are on origin/main.
C26_Witness ==
    /\ WritersFinished
    /\ \A w \in Writers : stepResult[w] = "success" /\ pushRejected[w] >= 1
    /\ \A w \in Writers \cup {0} : CommitsOf(w) >= 1

\* C27: whenever a trigger file is in .github/triggers/, the raw payload it
\* points at is in _temp_storage/: the sender drops the trigger after the
\* payload, and neither the unpacking nor the retention sweep deletes a
\* payload and leaves its trigger.
C27_TriggerHasPayload ==
    \A j \in triggers : j \in temp_storage /\ payload[j] = JobFiles(j)

\* The records of the listed files that load, in the order of the manifest.
RECURSIVE LoadedInOrder(_, _)
LoadedInOrder(files, i) ==
    IF i > Len(files) THEN <<>>
    ELSE (IF files[i] = "ok" THEN <<[filename |-> i]>> ELSE <<>>)
             \o LoadedInOrder(files, i + 1)

\* The manifest cannot be loaded, or no listed file loads.
NothingToShow ==
    \/ manifestFetch # "ok"
    \/ \A i \in DOMAIN manifestFiles : manifestFiles[i] # "ok"

\* C28: a call of loadSexyDuckData ends as a failure, the error shown and
\* rethrown, exactly when the manifest cannot be loaded or no listed file
\* loads; otherwise it ends with this.data holding one record for each listed
\* file that loads, in the order of the manifest, whatever became of the files
\* listed before and after it.
C28_LoadSkipsBadFiles ==
    /\ loadPc = "failed" => NothingToShow /\ thrown /\ shownError # ""
    /\ loadPc = "done" =>
          /\ ~NothingToShow
          /\ ~thrown /\ shownError = ""
          /\ this_data = LoadedInOrder(manifestFiles, 1)
          /\ this_filteredData = this_data
          /\ loadedCount = Len(this_data)
          /\ loadedCount + skippedCount = Len(manifestFiles)

\* Of three listed files the first cannot be parsed, the second loads, the
\* third is missing: the call ends with the record of the second.
C28_Witness ==
    /\ loadPc = "done"
    /\ manifestFiles = <<"bad_json", "ok", "not_ok">>
    /\ this_data = <<[filename |-> 2]>>
    /\ skippedCount = 2

-----------------------------------------------------------------------------
\* DataStorage.loadData (docs/js/data/storage.js)

\* What loadData does about expiry and about items it cannot read.
LoadExpiry(key) ==
    LET stored == localStorage[key] IN
    /\ ~loaded'.threw
    /\ stored.text \in {"none", "garbage"} =>
          loaded'.result = Null /\ localStorage' = localStorage
    /\ stored.text = "json" /\ dateNow - stored.timestamp > cacheExpiry =>
          loaded'.result = Null /\ localStorage'[key] = NoItem
    /\ loaded'.result # Null =>
          stored.text = "json" /\ dateNow - stored.timestamp <= cacheExpiry

\* C29 as stated: loadData returns no entry saved more than 24 hours ago (it
\* removes the key and returns null), returns null without throwing for a
\* missing or unparsable entry, and a result that is not null is the data of
\* the latest saveData call for that key.
C29_LoadReturnsLatestSave ==
    [][\A key \in StorageKeys : LoadData(key) =>
          /\ LoadExpiry(key)
          /\ loaded'.result # Null => loaded'.result = lastCall[key]]_vars

\* C29, amended: the same about expiry and unreadable entries; a result that
\* is not null is what JSON makes of the data of the latest saveData call for
\* that key that returned without throwing.
C29_LoadReturnsLatestStored ==
    [][\A key \in StorageKeys : LoadData(key) =>
          /\ LoadExpiry(key)
          /\ loaded'.result # Null =>
                loaded'.result = JSON_parse(JSON_stringify(lastSaved[key]))]_vars

\* An entry saved more than 24 hours ago has been asked for: the call
\* returned null and the key is gone, while the other key still answers
\* with the number saved under it after a later saveData threw.
C29_Witness ==
    /\ loaded.key = cacheKey /\ loaded.result = Null
    /\ localStorage[cacheKey] = NoItem
    /\ lastSaved[cacheKey] # NoData
    /\ localStorage[storageKey].text = "json"
    /\ lastSaved[storageKey] # lastCall[storageKey]

-----------------------------------------------------------------------------
\* ToastNotification.show (docs/js/components/ToastNotification.js)

\* C30: whatever show calls, hide calls and timer firings have happened, at
\* most maxToasts toasts are tracked in this.toasts and at most maxToasts are
\* attached to the container.
C30_AtMostMaxToasts ==
    /\ Len(toasts) <= maxToasts
    /\ Len(container) <= maxToasts

====
